---- MODULE Spec2Model ----
(***************************************************************************)
(* Kuechenplaner: shopping-list aggregation, recipe scaling, unit          *)
(* conversion and camp statistics (src/app/services), over the tables of   *)
(* src/app/models.py as read and written by src/app/crud.py.               *)
(*                                                                         *)
(* Quantities are Python floats in the source.  They are modelled as exact *)
(* rationals [n, d] in lowest terms: products, quotients, sums and         *)
(* comparisons are the mathematical ones, IEEE-754 rounding error is not   *)
(* modelled.  round(x, k) is modelled as round-half-to-even at k decimals. *)
(***************************************************************************)
EXTENDS Integers, Sequences, FiniteSets, TLC

VARIABLES
    camps,                \* camps table: camp id -> row
    recipes,              \* recipes table with recipe_ingredients: recipe id -> row
    ingredients,          \* ingredients table: ingredient id -> row
    meal_plans,           \* meal_plans table: set of rows
    app_settings,         \* app_settings table: key -> stored JSON text
    recipe_versions,      \* recipe_versions table: set of rows
    DEFAULT_CONVERSIONS,  \* module-level dict of unit_converter.py
    request,              \* the call being served: operation and arguments
    response,             \* what that call returned or raised
    running               \* calls served step by step: call id -> its local variables

vars == <<camps, recipes, ingredients, meal_plans, app_settings, recipe_versions,
          DEFAULT_CONVERSIONS, request, response, running>>

db == <<camps, recipes, ingredients, meal_plans, app_settings, recipe_versions>>

(***************************************************************************)
(* Bounds of the model.                                                    *)
(***************************************************************************)
MaxMealPlans == 3     \* rows the meal_plans table may hold at once
MaxLines == 2         \* ingredient lines of a recipe passed to scale_recipe
MaxServings == 3      \* largest base_servings and target_servings drawn
MaxCalls == 2         \* calculations that may be in flight at once
MaxCamps == 2         \* rows the camps table may hold
MaxRecipes == 2       \* recipes created through create_recipe
MaxVersions == 3      \* largest version_number a recipe is taken to

(***************************************************************************)
(* Floats as exact rationals.                                              *)
(***************************************************************************)
Abs(x) == IF x < 0 THEN -x ELSE x

RECURSIVE GCD(_, _)
GCD(a, b) == IF b = 0 THEN a ELSE GCD(b, a % b)

\* the float n/d (d # 0), in lowest terms with a positive denominator
Q(n, d) ==
    LET s == IF d < 0 THEN -1 ELSE 1
        g == GCD(Abs(n), Abs(d))
    IN  [n |-> (s * n) \div g, d |-> (s * d) \div g]

QInt(i) == [n |-> i, d |-> 1]
QAdd(x, y) == Q(x.n * y.d + y.n * x.d, x.d * y.d)
QMul(x, y) == Q(x.n * y.n, x.d * y.d)
QGeq(x, y) == x.n * y.d >= y.n * x.d
QLt(x, y) == x.n * y.d < y.n * x.d

\* Python's int(x): truncation towards zero
PyInt(x) == IF x.n >= 0 THEN x.n \div x.d ELSE -((-x.n) \div x.d)

RECURSIVE Pow10(_)
Pow10(k) == IF k = 0 THEN 1 ELSE 10 * Pow10(k - 1)

\* Python's round(x, k): the nearest multiple of 10^-k, ties to the even one
PyRound(x, k) ==
    LET p == Pow10(k)
        num == x.n * p
        fl == num \div x.d
        twice == 2 * (num - fl * x.d)
        r == IF twice < x.d THEN fl
             ELSE IF twice > x.d THEN fl + 1
             ELSE IF fl % 2 = 0 THEN fl ELSE fl + 1
    IN  Q(r, p)

(***************************************************************************)
(* Python dicts as functions.                                              *)
(***************************************************************************)
EmptyDict == [k \in {} |-> k]

\* d1.update(d2) applied to a copy of d1: keys of d2 win
DictUpdate(d1, d2) ==
    [k \in DOMAIN d1 \cup DOMAIN d2 |-> IF k \in DOMAIN d2 THEN d2[k] ELSE d1[k]]

DictSet(d, key, val) ==
    [k \in DOMAIN d \cup {key} |-> IF k = key THEN val ELSE d[k]]

DictDel(d, key) == [k \in DOMAIN d \ {key} |-> d[k]]

(***************************************************************************)
(* unit_converter.py                                                       *)
(***************************************************************************)
Rule(threshold, target, factor) ==
    [threshold |-> threshold, target |-> target, factor |-> factor]

DefaultConversionsLiteral ==
    [u \in {"g", "ml", "mg"} |->
        CASE u = "g"  -> Rule(QInt(1000), "kg", Q(1, 1000))
          [] u = "ml" -> Rule(QInt(1000), "L", Q(1, 1000))
          [] u = "mg" -> Rule(QInt(1000), "g", Q(1, 1000))]

\* conversions = DEFAULT_CONVERSIONS.copy(); if custom_conversions: update
MergedConversions(defaults, custom_conversions) ==
    IF DOMAIN custom_conversions # {}
    THEN DictUpdate(defaults, custom_conversions)
    ELSE defaults

\* mutant of DefaultsAfterMerge: the module-level dict itself is updated
DefaultsAfterMerge_InPlace(defaults, custom_conversions) ==
    DictUpdate(defaults, custom_conversions)

\* what the merge leaves in the module-level dict: it works on a copy
DefaultsAfterMerge(defaults, custom_conversions) == defaults

\* mutant of RoundConverted: two decimal places whatever the size
RoundConverted_TwoDecimals(converted_quantity) == PyRound(converted_quantity, 2)

RoundConverted(converted_quantity) ==
    IF QGeq(converted_quantity, QInt(10)) THEN PyRound(converted_quantity, 1)
    ELSE IF QGeq(converted_quantity, QInt(1)) THEN PyRound(converted_quantity, 2)
    ELSE PyRound(converted_quantity, 3)

RoundUnconverted(quantity) ==
    IF quantity # QInt(PyInt(quantity)) THEN PyRound(quantity, 2)
    ELSE QInt(PyInt(quantity))

\* mutant of ThresholdReached: the threshold itself is not converted
ThresholdReached_Strict(quantity, conv) == QLt(conv.threshold, quantity)

\* the threshold test of convert_unit
ThresholdReached(quantity, conv) == QGeq(quantity, conv.threshold)

\* conv['threshold'], conv['factor'], conv['target'] of a rule without the key
KeyError(key) == [error |-> "KeyError", key |-> key]

MissingRuleKey(conv, key) == key \notin DOMAIN conv

\* convert_unit(quantity, unit, custom_conversions); None is passed as {}
convert_unit(defaults, quantity, unit, custom_conversions) ==
    LET conversions == MergedConversions(defaults, custom_conversions)
        conv == conversions[unit]
        unconverted == [quantity |-> RoundUnconverted(quantity),
                        unit |-> unit,
                        was_converted |-> FALSE]
    IN  IF unit \notin DOMAIN conversions THEN unconverted
        ELSE IF MissingRuleKey(conv, "threshold") THEN KeyError("threshold")
        ELSE IF ~ThresholdReached(quantity, conv) THEN unconverted
        ELSE IF MissingRuleKey(conv, "factor") THEN KeyError("factor")
        ELSE IF MissingRuleKey(conv, "target") THEN KeyError("target")
        ELSE [quantity |-> RoundConverted(QMul(quantity, conv.factor)),
              unit |-> conv.target,
              was_converted |-> TRUE,
              original_quantity |-> quantity,
              original_unit |-> unit]

(***************************************************************************)
(* calculation.py: scale_recipe                                            *)
(***************************************************************************)
\* mutant of ScaleFactor: the division is an integer division
ScaleFactor_IntegerDivision(target_servings, base_servings) ==
    QInt(target_servings \div base_servings)

\* line 17: factor = target_servings / recipe.base_servings
ScaleFactor(target_servings, base_servings) == Q(target_servings, base_servings)

\* mutant of ScaledLine: the unit is normalised per recipe, before aggregation
ScaledLine_ConvertsEarly(ingredient_table, line, factor) ==
    LET converted == convert_unit(DefaultConversionsLiteral, QMul(line.quantity, factor),
                                  line.unit, EmptyDict)
    IN  [ingredient |-> ingredient_table[line.ingredient_id],
         ingredient_id |-> line.ingredient_id,
         quantity |-> converted.quantity,
         unit |-> converted.unit,
         original_quantity |-> line.quantity,
         original_unit |-> line.unit]

\* mutant of ScaledLine: the scaled quantity is rounded to a whole number
ScaledLine_Rounded(ingredient_table, line, factor) ==
    [ingredient |-> ingredient_table[line.ingredient_id],
     ingredient_id |-> line.ingredient_id,
     quantity |-> PyRound(QMul(line.quantity, factor), 0),
     unit |-> line.unit,
     original_quantity |-> line.quantity,
     original_unit |-> line.unit]

ScaledLine(ingredient_table, line, factor) ==
    [ingredient |-> ingredient_table[line.ingredient_id],
     ingredient_id |-> line.ingredient_id,
     quantity |-> QMul(line.quantity, factor),
     unit |-> line.unit,
     original_quantity |-> line.quantity,
     original_unit |-> line.unit]

\* mutant of scale_recipe: the guard on base_servings is missing
scale_recipe_Unguarded(ingredient_table, recipe, target_servings) ==
    IF recipe.base_servings = 0
    THEN [status |-> "ZeroDivisionError", message |-> "division by zero"]
    ELSE LET factor == ScaleFactor(target_servings, recipe.base_servings)
         IN  [status |-> "ok",
              recipe |-> recipe,
              ingredients |-> [i \in 1..Len(recipe.ingredients) |->
                                  ScaledLine(ingredient_table, recipe.ingredients[i], factor)],
              factor |-> factor,
              target_servings |-> target_servings,
              base_servings |-> recipe.base_servings]

\* scale_recipe(recipe, target_servings): the dict returned, or the ValueError
scale_recipe(ingredient_table, recipe, target_servings) ==
    IF recipe.base_servings <= 0
    THEN [status |-> "ValueError",
          message |-> "Recipe base_servings must be greater than 0"]
    ELSE LET factor == ScaleFactor(target_servings, recipe.base_servings)
         IN  [status |-> "ok",
              recipe |-> recipe,
              ingredients |-> [i \in 1..Len(recipe.ingredients) |->
                                  ScaledLine(ingredient_table, recipe.ingredients[i], factor)],
              factor |-> factor,
              target_servings |-> target_servings,
              base_servings |-> recipe.base_servings]

(***************************************************************************)
(* Dates.  A datetime is a number of ticks, TicksPerDay of them to the     *)
(* calendar day; .date() drops the time of day, timedelta.days floors.     *)
(***************************************************************************)
TicksPerDay == 2

DateOf(dt) == dt \div TicksPerDay
TimedeltaDays(later, earlier) == (later - earlier) \div TicksPerDay
PlusDays(dt, days) == dt + days * TicksPerDay

(***************************************************************************)
(* models.py: MealType, and the order its stored names sort in.            *)
(***************************************************************************)
MealTypes == {"BREAKFAST", "LUNCH", "DINNER"}

MealTypeRank(t) == CASE t = "BREAKFAST" -> 1 [] t = "DINNER" -> 2 [] t = "LUNCH" -> 3

\* recipe_id of a "no meal" row (NULL / None)
NoRecipe == 0

(***************************************************************************)
(* crud.py: reads                                                          *)
(***************************************************************************)
\* get_camp: the row, or None (reported by CampExists)
CampExists(camp_table, camp_id) == camp_id \in DOMAIN camp_table
get_camp(camp_table, camp_id) == camp_table[camp_id]

\* meal_plan.recipe: the related row exists
HasRecipe(recipe_table, meal_plan) == meal_plan.recipe_id \in DOMAIN recipe_table

\* ORDER BY meal_date, meal_type, position (primary key last)
MealPlanBefore(a, b) ==
    \/ a.meal_date < b.meal_date
    \/ a.meal_date = b.meal_date /\ MealTypeRank(a.meal_type) < MealTypeRank(b.meal_type)
    \/ a.meal_date = b.meal_date /\ a.meal_type = b.meal_type /\ a.position < b.position
    \/ a.meal_date = b.meal_date /\ a.meal_type = b.meal_type /\ a.position = b.position
         /\ a.id < b.id

RECURSIVE SortMealPlans(_)
SortMealPlans(rows) ==
    IF rows = {} THEN <<>>
    ELSE LET first == CHOOSE r \in rows : \A o \in rows \ {r} : MealPlanBefore(r, o)
         IN  <<first>> \o SortMealPlans(rows \ {first})

get_meal_plans_for_camp(rows, camp_id) ==
    SortMealPlans({r \in rows : r.camp_id = camp_id})

(***************************************************************************)
(* crud.py: settings, stored as JSON text                                  *)
(***************************************************************************)
JsonDumps(value) == [json |-> value]
JsonLoads(text) == text.json

get_setting_value(settings, key, default) ==
    IF key \in DOMAIN settings THEN JsonLoads(settings[key]) ELSE default

set_setting_value(settings, key, value) == DictSet(settings, key, JsonDumps(value))

load_custom_conversions(settings) ==
    get_setting_value(settings, "unit_conversions", EmptyDict)

\* the rules calculate_shopping_list hands to convert_unit: it passes none
ShoppingListCustomConversions(settings) == EmptyDict

get_all_conversions(defaults, settings) ==
    DictUpdate(defaults, load_custom_conversions(settings))

(***************************************************************************)
(* calculation.py: calculate_shopping_list                                 *)
(***************************************************************************)
\* Python's string order, on the names and categories of the ingredient table
StringOrder == <<"Backwaren", "Mehl", "Milch", "Milchprodukte", "Zucker">>

StringRank(str) == CHOOSE i \in 1..Len(StringOrder) : StringOrder[i] = str

\* the defaultdict `aggregated`: keys in insertion order and their entries
EmptyAggregated == [keys |-> <<>>, data |-> EmptyDict]

\* mutant of AggregateOne: the entry is assigned, not added to
AggregateOne_Assigns(aggregated, ingredient_data) ==
    LET key == <<ingredient_data.ingredient_id, ingredient_data.unit>>
    IN  [keys |-> IF key \in DOMAIN aggregated.data THEN aggregated.keys
                  ELSE Append(aggregated.keys, key),
         data |-> DictSet(aggregated.data, key,
                          [quantity |-> ingredient_data.quantity,
                           ingredient |-> ingredient_data.ingredient,
                           ingredient_id |-> ingredient_data.ingredient_id,
                           unit |-> ingredient_data.unit])]

\* mutant of AggregateOne: a key keeps the quantity that was added first
AggregateOne_KeepsFirst(aggregated, ingredient_data) ==
    LET key == <<ingredient_data.ingredient_id, ingredient_data.unit>>
    IN  IF key \in DOMAIN aggregated.data THEN aggregated
        ELSE [keys |-> Append(aggregated.keys, key),
              data |-> DictSet(aggregated.data, key,
                               [quantity |-> ingredient_data.quantity,
                                ingredient |-> ingredient_data.ingredient,
                                ingredient_id |-> ingredient_data.ingredient_id,
                                unit |-> ingredient_data.unit])]

\* lines 58-69 for one scaled ingredient
AggregateOne(aggregated, ingredient_data) ==
    LET key == <<ingredient_data.ingredient_id, ingredient_data.unit>>
        fresh == key \notin DOMAIN aggregated.data
        old == IF fresh
               THEN [quantity |-> QInt(0),
                     ingredient |-> ingredient_data.ingredient,
                     ingredient_id |-> ingredient_data.ingredient_id,
                     unit |-> ingredient_data.unit]
               ELSE aggregated.data[key]
    IN  [keys |-> IF fresh THEN Append(aggregated.keys, key) ELSE aggregated.keys,
         data |-> DictSet(aggregated.data, key,
                          [old EXCEPT !.quantity = QAdd(old.quantity, ingredient_data.quantity)])]

RECURSIVE AggregateLines(_, _, _)
AggregateLines(aggregated, scaled_ingredients, i) ==
    IF i > Len(scaled_ingredients) THEN aggregated
    ELSE AggregateLines(AggregateOne(aggregated, scaled_ingredients[i]),
                        scaled_ingredients, i + 1)

\* the slot is skipped: no recipe id, or no recipe row behind it
SkipsMealPlan(recipe_table, meal_plan) ==
    meal_plan.recipe_id = NoRecipe \/ ~HasRecipe(recipe_table, meal_plan)

\* mutant of AggregateMealPlans: a slot whose recipe cannot be scaled is skipped
RECURSIVE AggregateMealPlans_SkipsInvalid(_, _, _, _, _, _)
AggregateMealPlans_SkipsInvalid(recipe_table, ingredient_table, camp, rows, i, aggregated) ==
    IF i > Len(rows) THEN [status |-> "ok", aggregated |-> aggregated]
    ELSE IF SkipsMealPlan(recipe_table, rows[i])
    THEN AggregateMealPlans_SkipsInvalid(recipe_table, ingredient_table, camp, rows, i + 1,
                                         aggregated)
    ELSE LET scaled == scale_recipe(ingredient_table, recipe_table[rows[i].recipe_id],
                                    camp.participant_count)
         IN  AggregateMealPlans_SkipsInvalid(
                 recipe_table, ingredient_table, camp, rows, i + 1,
                 IF scaled.status # "ok" THEN aggregated
                 ELSE AggregateLines(aggregated, scaled.ingredients, 1))

\* lines 51-69 for one meal plan: skipped, added to the accumulator, or the
\* ValueError of scale_recipe
AggregateMealPlan(recipe_table, ingredient_table, camp, meal_plan, aggregated) ==
    IF SkipsMealPlan(recipe_table, meal_plan)
    THEN [status |-> "ok", aggregated |-> aggregated]
    ELSE LET scaled == scale_recipe(ingredient_table, recipe_table[meal_plan.recipe_id],
                                    camp.participant_count)
         IN  IF scaled.status # "ok" THEN scaled
             ELSE [status |-> "ok",
                   aggregated |-> AggregateLines(aggregated, scaled.ingredients, 1)]

\* lines 50-69: the loop over the meal plans; a raise in scale_recipe ends it
RECURSIVE AggregateMealPlans(_, _, _, _, _, _)
AggregateMealPlans(recipe_table, ingredient_table, camp, rows, i, aggregated) ==
    IF i > Len(rows) THEN [status |-> "ok", aggregated |-> aggregated]
    ELSE LET one == AggregateMealPlan(recipe_table, ingredient_table, camp, rows[i],
                                      aggregated)
         IN  IF one.status # "ok" THEN one
             ELSE AggregateMealPlans(recipe_table, ingredient_table, camp, rows, i + 1,
                                     one.aggregated)

\* lines 73-83 for one accumulated key
ShoppingItem(defaults, settings, data) ==
    LET converted == convert_unit(defaults, data.quantity, data.unit,
                                  ShoppingListCustomConversions(settings))
    IN  [ingredient |-> data.ingredient,
         ingredient_id |-> data.ingredient_id,
         quantity |-> converted.quantity,
         unit |-> converted.unit,
         original_quantity |-> data.quantity,
         original_unit |-> data.unit,
         category |-> data.ingredient.category]

\* mutant of InsertByName: the items of a category stay in insertion order
InsertByName_Appends(sorted, item) == Append(sorted, item)

\* sorted(items, key=name): stable insertion sort
RECURSIVE InsertByName(_, _)
InsertByName(sorted, item) ==
    IF sorted = <<>> THEN <<item>>
    ELSE IF StringRank(item.ingredient.name) < StringRank(Head(sorted).ingredient.name)
    THEN <<item>> \o sorted
    ELSE <<Head(sorted)>> \o InsertByName(Tail(sorted), item)

RECURSIVE SortByName(_, _)
SortByName(items, i) ==
    IF i = 0 THEN <<>> ELSE InsertByName(SortByName(items, i - 1), items[i])

RECURSIVE SortCategories(_)
SortCategories(cats) ==
    IF cats = {} THEN <<>>
    ELSE LET first == CHOOSE c \in cats : \A o \in cats : StringRank(c) <= StringRank(o)
         IN  <<first>> \o SortCategories(cats \ {first})

\* lines 85-96: the category names in order, and each category's sorted items
GroupByCategory(shopping_items) ==
    LET cats == {shopping_items[i].category : i \in 1..Len(shopping_items)}
    IN  [order |-> SortCategories(cats),
         lists |-> [c \in cats |->
                       LET mine == SelectSeq(shopping_items, LAMBDA it : it.category = c)
                       IN  SortByName(mine, Len(mine))]]

\* mutant of ShoppingListForMissingCamp: an empty list instead of the error
ShoppingListForMissingCamp_Empty ==
    [status |-> "ok", items |-> <<>>, total_items |-> 0, total_recipes |-> 0]

\* lines 42-43: raise ValueError(f"Camp with id {camp_id} not found")
ShoppingListForMissingCamp == [status |-> "ValueError", message |-> "Camp not found"]

\* lines 71-104: the result built from the filled accumulator
ListOfAggregated(camp, plans, aggregated, settings, defaults) ==
    LET shopping_items ==
            [i \in 1..Len(aggregated.keys) |->
                ShoppingItem(defaults, settings, aggregated.data[aggregated.keys[i]])]
    IN  [status |-> "ok",
         camp |-> camp,
         items |-> shopping_items,
         categories |-> GroupByCategory(shopping_items),
         total_items |-> Len(shopping_items),
         total_recipes |-> Cardinality({plans[i].recipe_id : i \in 1..Len(plans)})]

\* lines 47-104: the list computed from the camp and the meal plans that were read
ShoppingListOf(camp, recipe_table, ingredient_table, plans, settings, defaults) ==
    LET agg == AggregateMealPlans(recipe_table, ingredient_table, camp, plans, 1,
                                  EmptyAggregated)
    IN  IF agg.status # "ok" THEN agg
        ELSE ListOfAggregated(camp, plans, agg.aggregated, settings, defaults)

calculate_shopping_list(camp_table, recipe_table, ingredient_table, rows, settings, defaults, camp_id) ==
    IF ~CampExists(camp_table, camp_id)
    THEN ShoppingListForMissingCamp
    ELSE ShoppingListOf(get_camp(camp_table, camp_id), recipe_table, ingredient_table,
                        get_meal_plans_for_camp(rows, camp_id), settings, defaults)

(***************************************************************************)
(* calculation.py: get_camp_statistics                                     *)
(***************************************************************************)
\* mutant of DayMeals: the datetimes are compared, not their dates
DayMeals_ComparesDatetimes(plans, day_date) ==
    [t \in MealTypes |->
        SelectSeq(plans, LAMBDA mp : mp.meal_date = day_date /\ mp.meal_type = t)]

\* lines 165-177: the rows of one day by meal type (None is the empty list)
DayMeals(plans, day_date) ==
    [t \in MealTypes |->
        SelectSeq(plans, LAMBDA mp : DateOf(mp.meal_date) = DateOf(day_date) /\ mp.meal_type = t)]

DayEntry(camp, plans, day_num) ==
    LET day_date == PlusDays(camp.start_date, day_num)
        day_meals == DayMeals(plans, day_date)
    IN  [day_number |-> day_num + 1,
         date |-> day_date,
         meals |-> day_meals,
         meals_planned |-> Cardinality({t \in MealTypes : Len(day_meals[t]) > 0})]

\* mutant of CompletionPercentage: the percentage is cut to a whole number
CompletionPercentage_Truncated(planned_meals, expected_meals) ==
    IF expected_meals > 0 THEN QInt(PyInt(Q(planned_meals * 100, expected_meals)))
    ELSE QInt(0)

\* line 196
CompletionPercentage(planned_meals, expected_meals) ==
    IF expected_meals > 0 THEN PyRound(Q(planned_meals * 100, expected_meals), 1)
    ELSE QInt(0)

\* mutant of StatisticsForMissingCamp: it raises as the shopping list does
StatisticsForMissingCamp_Raises == [status |-> "ValueError", message |-> "Camp not found"]

\* lines 110-111: return {}
StatisticsForMissingCamp == [status |-> "ok", empty |-> TRUE]

\* mutant of TotalDays: the last day is left out
TotalDays_Exclusive(camp) == TimedeltaDays(camp.end_date, camp.start_date)

\* line 126
TotalDays(camp) == TimedeltaDays(camp.end_date, camp.start_date) + 1

\* mutant of PlannedMeals: every row counts, and only rows with a recipe
PlannedMeals_CountsRecipeRows(plans) ==
    Cardinality({i \in 1..Len(plans) : plans[i].recipe_id # NoRecipe})

\* lines 133-137: the distinct (date, meal type) pairs of the rows
PlannedMeals(plans) ==
    Cardinality({<<DateOf(plans[i].meal_date), plans[i].meal_type>> : i \in 1..Len(plans)})

\* lines 117-123: the recipe ids of the rows, `if meal_plan.recipe_id` leaves None out
RecipeIdsOf(plans) == {plans[i].recipe_id : i \in 1..Len(plans)} \ {NoRecipe}

\* mutant of MissingMealsWarning: it is also given when nothing is missing
MissingMealsWarning_Always(planned_meals, expected_meals) ==
    IF planned_meals <= expected_meals
    THEN <<[kind |-> "meals_not_planned", count |-> expected_meals - planned_meals]>>
    ELSE <<>>

\* lines 141-142: f"{expected_meals - planned_meals} Mahlzeiten noch nicht geplant"
MissingMealsWarning(planned_meals, expected_meals) ==
    IF planned_meals < expected_meals
    THEN <<[kind |-> "meals_not_planned", count |-> expected_meals - planned_meals]>>
    ELSE <<>>

\* mutant of RecipesWithoutAllergens: every referenced recipe is counted
RecipesWithoutAllergens_CountsAll(recipe_table, recipe_ids) ==
    Cardinality(recipe_ids \cap DOMAIN recipe_table)

\* lines 148-152: the rows of the referenced recipes that have no allergen
RecipesWithoutAllergens(recipe_table, recipe_ids) ==
    Cardinality({r \in recipe_ids \cap DOMAIN recipe_table : recipe_table[r].allergens = {}})

\* lines 145-155: f"{recipes_without_allergens} Rezepte ohne Allergen-Informationen"
AllergenWarning(recipe_table, recipe_ids) ==
    IF recipe_ids # {} /\ RecipesWithoutAllergens(recipe_table, recipe_ids) > 0
    THEN <<[kind |-> "recipes_without_allergens",
            count |-> RecipesWithoutAllergens(recipe_table, recipe_ids)]>>
    ELSE <<>>

\* lines 113-199: the statistics computed from the camp and the meal plans read
StatisticsOf(camp, recipe_table, plans) ==
    LET idx == 1..Len(plans)
        types == {plans[i].meal_type : i \in idx}
        meal_counts == [t \in types |-> Cardinality({i \in idx : plans[i].meal_type = t})]
        recipe_ids == RecipeIdsOf(plans)
        total_days == TotalDays(camp)
        expected_meals == total_days * 3
        planned_meals == PlannedMeals(plans)
    IN  [status |-> "ok",
         empty |-> FALSE,
         camp |-> camp,
         total_days |-> total_days,
         planned_meals |-> planned_meals,
         expected_meals |-> expected_meals,
         unique_recipes |-> Cardinality(recipe_ids),
         meal_counts |-> meal_counts,
         completion_percentage |-> CompletionPercentage(planned_meals, expected_meals),
         warnings |-> MissingMealsWarning(planned_meals, expected_meals)
                      \o AllergenWarning(recipe_table, recipe_ids),
         daily_overview |-> [d \in 1..(IF total_days > 0 THEN total_days ELSE 0) |->
                                DayEntry(camp, plans, d - 1)]]

get_camp_statistics(camp_table, recipe_table, rows, camp_id) ==
    IF ~CampExists(camp_table, camp_id)
    THEN StatisticsForMissingCamp
    ELSE StatisticsOf(get_camp(camp_table, camp_id), recipe_table,
                      get_meal_plans_for_camp(rows, camp_id))

(***************************************************************************)
(* crud.py and routers: writes                                             *)
(***************************************************************************)
\* the primary key SQLite gives the next row
NextId(rows) ==
    IF rows = {} THEN 1
    ELSE (CHOOSE m \in {r.id : r \in rows} : \A r \in rows : r.id <= m) + 1

SameSlot(r, meal_plan) ==
    /\ r.camp_id = meal_plan.camp_id
    /\ r.meal_date = meal_plan.meal_date
    /\ r.meal_type = meal_plan.meal_type

\* uix_meal_plan_position
ViolatesUniquePosition(rows, row) ==
    \E r \in rows : SameSlot(r, row) /\ r.position = row.position

\* crud.py 257-263: the rows of the slot are counted
ExistingCount(rows, meal_plan) == Cardinality({r \in rows : SameSlot(r, meal_plan)})

\* crud.py 266-271: the row is inserted at the position counted before; the
\* table afterwards, or the IntegrityError of the insert
insert_meal_plan(rows, meal_plan, existing_count) ==
    LET db_meal_plan == [id |-> NextId(rows),
                         camp_id |-> meal_plan.camp_id,
                         recipe_id |-> meal_plan.recipe_id,
                         meal_date |-> meal_plan.meal_date,
                         meal_type |-> meal_plan.meal_type,
                         position |-> existing_count]
    IN  IF ViolatesUniquePosition(rows, db_meal_plan)
        THEN [status |-> "IntegrityError", rows |-> rows]
        ELSE [status |-> "ok", rows |-> rows \cup {db_meal_plan}, created |-> db_meal_plan]

\* crud.create_meal_plan
create_meal_plan(rows, meal_plan) ==
    insert_meal_plan(rows, meal_plan, ExistingCount(rows, meal_plan))

\* routers/meal_planning.py create_meal_plan
create_meal_plan_endpoint(camp_table, recipe_table, rows, meal_plan) ==
    IF ~CampExists(camp_table, meal_plan.camp_id)
    THEN [status |-> "404", rows |-> rows]
    ELSE IF meal_plan.recipe_id # NoRecipe /\ meal_plan.recipe_id \notin DOMAIN recipe_table
    THEN [status |-> "404", rows |-> rows]
    ELSE LET created == create_meal_plan(rows, meal_plan)
         IN  IF created.status = "ok" THEN [status |-> "200", rows |-> created.rows]
             ELSE [status |-> "500", rows |-> rows]

\* routers/meal_planning.py create_bulk_meal_plans: each row is committed on its
\* own, the first failing insert ends the request
RECURSIVE create_bulk_meal_plans(_, _, _)
create_bulk_meal_plans(rows, meal_plan_list, i) ==
    IF i > Len(meal_plan_list) THEN [status |-> "200", rows |-> rows]
    ELSE LET created == create_meal_plan(rows, meal_plan_list[i])
         IN  IF created.status = "ok"
             THEN create_bulk_meal_plans(created.rows, meal_plan_list, i + 1)
             ELSE [status |-> "500", rows |-> rows]

\* crud.delete_meal_plan behind routers/meal_planning.py delete_meal_plan
delete_meal_plan(rows, meal_plan_id) ==
    IF \E r \in rows : r.id = meal_plan_id
    THEN [status |-> "200", rows |-> {r \in rows : r.id # meal_plan_id}]
    ELSE [status |-> "404", rows |-> rows]

\* target_meal_type of a copy request that names none (None)
NoMealType == "None"

\* routers/meal_planning.py copy_meal_plan: the copy goes to crud.create_meal_plan
\* unverified; an IntegrityError of the insert is not caught
copy_meal_plan(rows, meal_plan_id, target_date, target_meal_type) ==
    IF ~(\E r \in rows : r.id = meal_plan_id)
    THEN [status |-> "404", rows |-> rows]
    ELSE LET original == CHOOSE r \in rows : r.id = meal_plan_id
             new_meal_plan ==
                 [camp_id |-> original.camp_id,
                  recipe_id |-> original.recipe_id,
                  meal_date |-> target_date,
                  meal_type |-> IF target_meal_type # NoMealType THEN target_meal_type
                                ELSE original.meal_type]
             created == create_meal_plan(rows, new_meal_plan)
         IN  IF created.status = "ok" THEN [status |-> "200", rows |-> created.rows]
             ELSE [status |-> "500", rows |-> rows]

\* mutant of CampChecksHold: the table has no check on the date range
CampChecksHold_NoDateRange(camp) == camp.participant_count > 0

\* models.py Camp.__table_args__
CampChecksHold(camp) ==
    camp.start_date <= camp.end_date /\ camp.participant_count > 0

\* routers/camps.py update_camp over crud.update_camp; update_data holds the
\* form fields that were sent
update_camp(camp_table, camp_id, update_data) ==
    LET sent == DOMAIN update_data
    IN  IF {"start_date", "end_date"} \subseteq sent
           /\ update_data["end_date"] <= update_data["start_date"]
        THEN [status |-> "400", camps |-> camp_table]
        ELSE IF "participant_count" \in sent /\ ~(update_data["participant_count"] > 0)
        THEN [status |-> "400", camps |-> camp_table]
        ELSE IF ~CampExists(camp_table, camp_id)
        THEN [status |-> "404", camps |-> camp_table]
        ELSE LET old == camp_table[camp_id]
                 new == [f \in DOMAIN old |-> IF f \in sent THEN update_data[f] ELSE old[f]]
             IN  IF CampChecksHold(new)
                 THEN [status |-> "200", camps |-> [camp_table EXCEPT ![camp_id] = new]]
                 ELSE [status |-> "500", camps |-> camp_table]

\* the primary key SQLite gives the next camp
NextCampId(camp_table) ==
    IF DOMAIN camp_table = {} THEN 1
    ELSE (CHOOSE m \in DOMAIN camp_table : \A c \in DOMAIN camp_table : c <= m) + 1

\* routers/camps.py create_camp over crud.create_camp: the dates of the form
\* are validated, the row is inserted and the camp becomes the selected one
create_camp(camp_table, settings, start_date, end_date, participant_count) ==
    LET row == [start_date |-> start_date, end_date |-> end_date,
                participant_count |-> participant_count]
        id == NextCampId(camp_table)
    IN  IF end_date <= start_date
        THEN [status |-> "400", camps |-> camp_table, settings |-> settings]
        ELSE IF ~(participant_count > 0)
        THEN [status |-> "400", camps |-> camp_table, settings |-> settings]
        ELSE IF ~CampChecksHold(row)
        THEN [status |-> "500", camps |-> camp_table, settings |-> settings]
        ELSE [status |-> "302",
              camps |-> camp_table @@ (id :> row),
              settings |-> set_setting_value(settings, "last_selected_camp_id", id)]

(***************************************************************************)
(* crud.py: create_recipe, update_recipe and the version snapshots         *)
(***************************************************************************)
\* a recipe_ingredients row names an ingredient that is not in the table;
\* ForeignKey('ingredients.id') rejects it at commit only on a connection
\* with foreign key enforcement on, which database.py does not ask for
ForeignKeyViolated(ingredient_table, lines, foreign_keys) ==
    /\ foreign_keys
    /\ \E i \in 1..Len(lines) : lines[i].ingredient_id \notin DOMAIN ingredient_table

\* crud.py 361: ri.ingredient.name, with ri.ingredient None for such a row
SnapshotRaises(ingredient_table, recipe) ==
    \E i \in 1..Len(recipe.ingredients) :
        recipe.ingredients[i].ingredient_id \notin DOMAIN ingredient_table

\* crud.py 358-366: ingredients_snapshot
IngredientsSnapshot(ingredient_table, recipe) ==
    JsonDumps([i \in 1..Len(recipe.ingredients) |->
                  [ingredient_id |-> recipe.ingredients[i].ingredient_id,
                   ingredient_name |->
                       ingredient_table[recipe.ingredients[i].ingredient_id].name,
                   quantity |-> recipe.ingredients[i].quantity,
                   unit |-> recipe.ingredients[i].unit]])

\* uix_recipe_version
ViolatesUniqueVersion(version_table, recipe_id, version_number) ==
    \E v \in version_table : v.recipe_id = recipe_id /\ v.version_number = version_number

\* _create_recipe_version: the outcome and the recipe_versions table after it
create_recipe_version(version_table, ingredient_table, recipe_id, recipe) ==
    IF SnapshotRaises(ingredient_table, recipe)
    THEN [status |-> "AttributeError", recipe_versions |-> version_table]
    ELSE IF ViolatesUniqueVersion(version_table, recipe_id, recipe.version_number)
    THEN [status |-> "IntegrityError", recipe_versions |-> version_table]
    ELSE [status |-> "ok",
          recipe_versions |->
              version_table \cup
                  {[recipe_id |-> recipe_id,
                    version_number |-> recipe.version_number,
                    base_servings |-> recipe.base_servings,
                    ingredients_snapshot |-> IngredientsSnapshot(ingredient_table, recipe)]}]

\* what the routers answer after crud.create_recipe / crud.update_recipe
RecipeWritten(recipe_table, snapshot) ==
    [recipes |-> recipe_table,
     recipe_versions |-> snapshot.recipe_versions,
     response |-> IF snapshot.status = "ok" THEN [status |-> 303] ELSE [status |-> 500]]

RecipeRefused(recipe_table, version_table, status) ==
    [recipes |-> recipe_table, recipe_versions |-> version_table,
     response |-> [status |-> status]]

\* routers/recipes.py create_recipe over crud.create_recipe
create_recipe(recipe_table, version_table, ingredient_table, recipe, foreign_keys) ==
    IF recipe.base_servings <= 0
    THEN RecipeRefused(recipe_table, version_table, 500)
    ELSE IF ForeignKeyViolated(ingredient_table, recipe.ingredients, foreign_keys)
    THEN RecipeRefused(recipe_table, version_table, 500)
    ELSE LET db_recipe == [base_servings |-> recipe.base_servings,
                           ingredients |-> recipe.ingredients,
                           allergens |-> {},
                           version_number |-> 1]
             stored == Append(recipe_table, db_recipe)
         IN  RecipeWritten(stored,
                           create_recipe_version(version_table, ingredient_table,
                                                 Len(stored), db_recipe))

\* routers/recipes.py update_recipe over crud.update_recipe
update_recipe(recipe_table, version_table, ingredient_table, recipe_id, recipe_update, foreign_keys) ==
    IF recipe_id \notin DOMAIN recipe_table
    THEN RecipeRefused(recipe_table, version_table, 404)
    ELSE IF recipe_update.base_servings <= 0
    THEN RecipeRefused(recipe_table, version_table, 500)
    ELSE IF ForeignKeyViolated(ingredient_table, recipe_update.ingredients, foreign_keys)
    THEN RecipeRefused(recipe_table, version_table, 500)
    ELSE LET db_recipe ==
                 [recipe_table[recipe_id] EXCEPT
                      !.base_servings = recipe_update.base_servings,
                      !.ingredients = recipe_update.ingredients,
                      !.version_number = recipe_table[recipe_id].version_number + 1]
             stored == [recipe_table EXCEPT ![recipe_id] = db_recipe]
         IN  RecipeWritten(stored,
                           create_recipe_version(version_table, ingredient_table,
                                                 recipe_id, db_recipe))

\* settings.py update_unit_conversions: the posted mapping is stored as it is
update_unit_conversions(settings, conversions) ==
    set_setting_value(settings, "unit_conversions", conversions)

\* unit_converter.py add_custom_conversion / remove_custom_conversion
add_custom_conversion(settings, from_unit, to_unit, threshold, factor) ==
    set_setting_value(settings, "unit_conversions",
                      DictSet(load_custom_conversions(settings), from_unit,
                              Rule(threshold, to_unit, factor)))

remove_custom_conversion(settings, from_unit) ==
    LET conversions == load_custom_conversions(settings)
    IN  IF from_unit \in DOMAIN conversions
        THEN set_setting_value(settings, "unit_conversions", DictDel(conversions, from_unit))
        ELSE settings

(***************************************************************************)
(* The requests.  Each action serves one call: `request` records the call  *)
(* (with its arguments for the read-only calls), `response` what it        *)
(* returned or raised.                                                     *)
(***************************************************************************)
CalculateShoppingList(camp_id) ==
    /\ request' = [op |-> "calculate_shopping_list", camp_id |-> camp_id]
    /\ response' = calculate_shopping_list(camps, recipes, ingredients, meal_plans,
                                           app_settings, DEFAULT_CONVERSIONS, camp_id)
    /\ DEFAULT_CONVERSIONS' =
           DefaultsAfterMerge(DEFAULT_CONVERSIONS, ShoppingListCustomConversions(app_settings))
    /\ UNCHANGED db
    /\ UNCHANGED running

\* mutant of GetCampStatistics: the rows without a recipe are cleared away
GetCampStatistics_DropsNoMealRows(camp_id) ==
    /\ request' = [op |-> "get_camp_statistics", camp_id |-> camp_id]
    /\ response' = get_camp_statistics(camps, recipes, meal_plans, camp_id)
    /\ meal_plans' = {r \in meal_plans : r.recipe_id # NoRecipe}
    /\ UNCHANGED <<camps, recipes, recipe_versions, ingredients, app_settings,
                    DEFAULT_CONVERSIONS>>
    /\ UNCHANGED running

GetCampStatistics(camp_id) ==
    /\ request' = [op |-> "get_camp_statistics", camp_id |-> camp_id]
    /\ response' = get_camp_statistics(camps, recipes, meal_plans, camp_id)
    /\ UNCHANGED <<db, DEFAULT_CONVERSIONS>>
    /\ UNCHANGED running

ScaleRecipe(recipe_id, target_servings) ==
    /\ recipe_id \in DOMAIN recipes
    /\ request' = [op |-> "scale_recipe", recipe_id |-> recipe_id,
                   target_servings |-> target_servings]
    /\ response' = scale_recipe(ingredients, recipes[recipe_id], target_servings)
    /\ UNCHANGED <<db, DEFAULT_CONVERSIONS>>
    /\ UNCHANGED running

ConvertUnit(quantity, unit, custom_conversions) ==
    /\ request' = [op |-> "convert_unit", quantity |-> quantity, unit |-> unit,
                   custom_conversions |-> custom_conversions]
    /\ response' = convert_unit(DEFAULT_CONVERSIONS, quantity, unit, custom_conversions)
    /\ DEFAULT_CONVERSIONS' = DefaultsAfterMerge(DEFAULT_CONVERSIONS, custom_conversions)
    /\ UNCHANGED db
    /\ UNCHANGED running

GetAllConversions ==
    /\ request' = [op |-> "get_all_conversions"]
    /\ response' = [status |-> "ok",
                    conversions |-> get_all_conversions(DEFAULT_CONVERSIONS, app_settings)]
    /\ DEFAULT_CONVERSIONS' =
           DefaultsAfterMerge(DEFAULT_CONVERSIONS, load_custom_conversions(app_settings))
    /\ UNCHANGED db
    /\ UNCHANGED running

AddCustomConversion(from_unit, rule) ==
    /\ request' = [op |-> "add_custom_conversion"]
    /\ app_settings' = add_custom_conversion(app_settings, from_unit, rule.target,
                                             rule.threshold, rule.factor)
    /\ response' = [status |-> "ok"]
    /\ UNCHANGED <<camps, recipes, recipe_versions, ingredients, meal_plans,
                    DEFAULT_CONVERSIONS>>
    /\ UNCHANGED running

RemoveCustomConversion(from_unit) ==
    /\ request' = [op |-> "remove_custom_conversion"]
    /\ app_settings' = remove_custom_conversion(app_settings, from_unit)
    /\ response' = [status |-> "ok"]
    /\ UNCHANGED <<camps, recipes, recipe_versions, ingredients, meal_plans,
                    DEFAULT_CONVERSIONS>>
    /\ UNCHANGED running

UpdateUnitConversions(conversions) ==
    /\ request' = [op |-> "update_unit_conversions"]
    /\ app_settings' = update_unit_conversions(app_settings, conversions)
    /\ response' = [success |-> TRUE, conversions |-> conversions]
    /\ UNCHANGED <<camps, recipes, recipe_versions, ingredients, meal_plans,
                    DEFAULT_CONVERSIONS>>
    /\ UNCHANGED running

CreateRecipe(recipe, foreign_keys) ==
    /\ Len(recipes) < MaxRecipes
    /\ request' = [op |-> "create_recipe"]
    /\ LET done == create_recipe(recipes, recipe_versions, ingredients, recipe, foreign_keys)
       IN  /\ recipes' = done.recipes
           /\ recipe_versions' = done.recipe_versions
           /\ response' = done.response
    /\ UNCHANGED <<camps, ingredients, meal_plans, app_settings, DEFAULT_CONVERSIONS>>
    /\ UNCHANGED running

UpdateRecipe(recipe_id, recipe_update, foreign_keys) ==
    /\ recipe_id \in DOMAIN recipes => recipes[recipe_id].version_number < MaxVersions
    /\ request' = [op |-> "update_recipe"]
    /\ LET done == update_recipe(recipes, recipe_versions, ingredients, recipe_id,
                                 recipe_update, foreign_keys)
       IN  /\ recipes' = done.recipes
           /\ recipe_versions' = done.recipe_versions
           /\ response' = done.response
    /\ UNCHANGED <<camps, ingredients, meal_plans, app_settings, DEFAULT_CONVERSIONS>>
    /\ UNCHANGED running

\* the primary keys the model hands out are capped
IdsLeft(n) == NextId(meal_plans) + n - 1 <= MaxMealPlans + 1

CreateMealPlan(meal_plan) ==
    /\ Cardinality(meal_plans) < MaxMealPlans
    /\ IdsLeft(1)
    /\ request' = [op |-> "create_meal_plan"]
    /\ LET done == create_meal_plan_endpoint(camps, recipes, meal_plans, meal_plan)
       IN  /\ meal_plans' = done.rows
           /\ response' = [status |-> done.status]
    /\ UNCHANGED <<camps, recipes, recipe_versions, ingredients, app_settings,
                    DEFAULT_CONVERSIONS>>
    /\ UNCHANGED running

CreateBulkMealPlans(meal_plan_list) ==
    /\ Cardinality(meal_plans) + Len(meal_plan_list) <= MaxMealPlans
    /\ IdsLeft(Len(meal_plan_list))
    /\ request' = [op |-> "create_bulk_meal_plans"]
    /\ LET done == create_bulk_meal_plans(meal_plans, meal_plan_list, 1)
       IN  /\ meal_plans' = done.rows
           /\ response' = [status |-> done.status]
    /\ UNCHANGED <<camps, recipes, recipe_versions, ingredients, app_settings,
                    DEFAULT_CONVERSIONS>>
    /\ UNCHANGED running

DeleteMealPlan(meal_plan_id) ==
    /\ request' = [op |-> "delete_meal_plan"]
    /\ LET done == delete_meal_plan(meal_plans, meal_plan_id)
       IN  /\ meal_plans' = done.rows
           /\ response' = [status |-> done.status]
    /\ UNCHANGED <<camps, recipes, recipe_versions, ingredients, app_settings,
                    DEFAULT_CONVERSIONS>>
    /\ UNCHANGED running

CreateCamp(start_date, end_date, participant_count) ==
    /\ Cardinality(DOMAIN camps) < MaxCamps
    /\ request' = [op |-> "create_camp"]
    /\ LET done == create_camp(camps, app_settings, start_date, end_date, participant_count)
       IN  /\ camps' = done.camps
           /\ app_settings' = done.settings
           /\ response' = [status |-> done.status]
    /\ UNCHANGED <<recipes, recipe_versions, ingredients, meal_plans, DEFAULT_CONVERSIONS>>
    /\ UNCHANGED running

\* a copy may take the table one row beyond the rows created directly
CopyMealPlan(meal_plan_id, target_date, target_meal_type) ==
    /\ Cardinality(meal_plans) <= MaxMealPlans
    /\ IdsLeft(1)
    /\ request' = [op |-> "copy_meal_plan"]
    /\ LET done == copy_meal_plan(meal_plans, meal_plan_id, target_date, target_meal_type)
       IN  /\ meal_plans' = done.rows
           /\ response' = [status |-> done.status]
    /\ UNCHANGED <<camps, recipes, recipe_versions, ingredients, app_settings,
                    DEFAULT_CONVERSIONS>>
    /\ UNCHANGED running

UpdateCamp(camp_id, update_data) ==
    /\ request' = [op |-> "update_camp"]
    /\ LET done == update_camp(camps, camp_id, update_data)
       IN  /\ camps' = done.camps
           /\ response' = [status |-> done.status]
    /\ UNCHANGED <<recipes, recipe_versions, ingredients, meal_plans, app_settings,
                    DEFAULT_CONVERSIONS>>
    /\ UNCHANGED running

(***************************************************************************)
(* The calculations served step by step.  Every call has its own session   *)
(* (database.py get_db) and its own local variables; between two steps of  *)
(* a call other calls and writes may run.  running[c] holds the locals of  *)
(* call c: the camp and the meal plans it read, its loop position, its     *)
(* accumulator and, once computed, its result.                             *)
(***************************************************************************)
\* mutant of FreshAccumulator: one accumulator outlives the calls
FreshAccumulator_Reused(calls) ==
    IF \E c \in DOMAIN calls : calls[c].op = "calculate_shopping_list" /\ calls[c].found
    THEN LET c == CHOOSE c \in DOMAIN calls :
                      calls[c].op = "calculate_shopping_list" /\ calls[c].found
         IN  calls[c].aggregated
    ELSE EmptyAggregated

\* calculation.py line 48: aggregated = defaultdict(...), made by each call
FreshAccumulator(calls) == EmptyAggregated

Locals(op, camp_id, pc, found, camp, result) ==
    [op |-> op, camp_id |-> camp_id, pc |-> pc, found |-> found, camp |-> camp,
     plans |-> <<>>, i |-> 1, aggregated |-> FreshAccumulator(running), result |-> result]

\* lines 41-43 and 109-111: the camp is read; without one the call ends
StartCall(c, op, camp_id) ==
    /\ c \notin DOMAIN running
    /\ running' =
           DictSet(running, c,
                   IF CampExists(camps, camp_id)
                   THEN Locals(op, camp_id, "read_meal_plans", TRUE, get_camp(camps, camp_id),
                               [status |-> "none"])
                   ELSE Locals(op, camp_id, "done", FALSE, EmptyDict,
                               IF op = "calculate_shopping_list"
                               THEN ShoppingListForMissingCamp
                               ELSE StatisticsForMissingCamp))
    /\ UNCHANGED <<db, DEFAULT_CONVERSIONS, request, response>>

\* lines 45 and 113: the camp's meal plans are read
ReadMealPlans(c) ==
    /\ c \in DOMAIN running
    /\ running[c].pc = "read_meal_plans"
    /\ running' =
           [running EXCEPT ![c].plans = get_meal_plans_for_camp(meal_plans, running[c].camp_id),
                           ![c].pc = IF running[c].op = "calculate_shopping_list"
                                     THEN "aggregate" ELSE "compute"]
    /\ UNCHANGED <<db, DEFAULT_CONVERSIONS, request, response>>

\* lines 50-69: one round of the loop over the meal plans
AggregateNext(c) ==
    /\ c \in DOMAIN running
    /\ running[c].pc = "aggregate"
    /\ running[c].i <= Len(running[c].plans)
    /\ LET one == AggregateMealPlan(recipes, ingredients, running[c].camp,
                                    running[c].plans[running[c].i], running[c].aggregated)
       IN  running' =
               IF one.status = "ok"
               THEN [running EXCEPT ![c].aggregated = one.aggregated,
                                    ![c].i = running[c].i + 1]
               ELSE [running EXCEPT ![c].result = one, ![c].pc = "done"]
    /\ UNCHANGED <<db, DEFAULT_CONVERSIONS, request, response>>

\* lines 71-104: the loop is over, the items are converted, grouped and sorted
BuildShoppingList(c) ==
    /\ c \in DOMAIN running
    /\ running[c].pc = "aggregate"
    /\ running[c].i > Len(running[c].plans)
    /\ running' =
           [running EXCEPT ![c].result = ListOfAggregated(running[c].camp, running[c].plans,
                                                          running[c].aggregated, app_settings,
                                                          DEFAULT_CONVERSIONS),
                           ![c].pc = "done"]
    /\ DEFAULT_CONVERSIONS' =
           DefaultsAfterMerge(DEFAULT_CONVERSIONS, ShoppingListCustomConversions(app_settings))
    /\ UNCHANGED <<db, request, response>>

\* lines 115-199: the statistics of the rows read
ComputeStatistics(c) ==
    /\ c \in DOMAIN running
    /\ running[c].pc = "compute"
    /\ running' = [running EXCEPT ![c].result = StatisticsOf(running[c].camp, recipes,
                                                            running[c].plans),
                                  ![c].pc = "done"]
    /\ UNCHANGED <<db, DEFAULT_CONVERSIONS, request, response>>

\* the call returns or raises, its locals are gone
ReturnCall(c) ==
    /\ c \in DOMAIN running
    /\ running[c].pc = "done"
    /\ request' = [op |-> running[c].op, camp_id |-> running[c].camp_id]
    /\ response' = running[c].result
    /\ running' = DictDel(running, c)
    /\ UNCHANGED <<db, DEFAULT_CONVERSIONS>>

(***************************************************************************)
(* POST /api/meal-plans, from the arrival of the request to its answer.    *)
(* Requests that have arrived wait for the event loop; uvicorn runs one    *)
(* loop (main.py 213-218) and the handler is a coroutine without an await, *)
(* so the loop runs one handler body from its first statement to its last. *)
(***************************************************************************)
EventLoopFree == \A c \in DOMAIN running : running[c].pc \in {"received", "done"}

\* the request has arrived and waits for its handler to run
ReceiveCreateMealPlan(c, meal_plan) ==
    /\ c \notin DOMAIN running
    /\ running' = DictSet(running, c,
                          [op |-> "create_meal_plan", pc |-> "received",
                           meal_plan |-> meal_plan, existing_count |-> 0,
                           waiting |-> {}, status |-> "none", position |-> -1])
    /\ UNCHANGED <<db, DEFAULT_CONVERSIONS, request, response>>

\* meal_planning.py 101-119 and crud.py 257-263: camp and recipe are looked
\* up, then the rows of the slot are counted
ReadSlotCount(c) ==
    /\ c \in DOMAIN running
    /\ running[c].pc = "received"
    /\ EventLoopFree
    /\ Cardinality(meal_plans) < MaxMealPlans
    /\ IdsLeft(1)
    /\ LET meal_plan == running[c].meal_plan
           waiting == {d \in DOMAIN running \ {c} : running[d].pc = "received"}
           verified == /\ CampExists(camps, meal_plan.camp_id)
                       /\ \/ meal_plan.recipe_id = NoRecipe
                          \/ meal_plan.recipe_id \in DOMAIN recipes
       IN  running' =
               IF verified
               THEN [running EXCEPT ![c].pc = "insert",
                                    ![c].waiting = waiting,
                                    ![c].existing_count =
                                        ExistingCount(meal_plans, meal_plan)]
               ELSE [running EXCEPT ![c].pc = "done", ![c].waiting = waiting,
                                    ![c].status = "404"]
    /\ UNCHANGED <<db, DEFAULT_CONVERSIONS, request, response>>

\* crud.py 266-271 and meal_planning.py 121-138: insert, commit, answer
InsertMealPlan(c) ==
    /\ c \in DOMAIN running
    /\ running[c].pc = "insert"
    /\ LET created == insert_meal_plan(meal_plans, running[c].meal_plan,
                                       running[c].existing_count)
           status == IF created.status = "ok" THEN "200" ELSE "500"
       IN  /\ meal_plans' = created.rows
           /\ response' = [status |-> status]
           /\ running' = [running EXCEPT ![c].pc = "done", ![c].status = status,
                                         ![c].position = running[c].existing_count]
    /\ request' = [op |-> "create_meal_plan"]
    /\ UNCHANGED <<camps, recipes, recipe_versions, ingredients, app_settings,
                    DEFAULT_CONVERSIONS>>

\* the answer has been delivered
ForgetCall(c) ==
    /\ c \in DOMAIN running
    /\ running[c].pc = "done"
    /\ running' = DictDel(running, c)
    /\ UNCHANGED <<db, DEFAULT_CONVERSIONS, request, response>>

(***************************************************************************)
(* The data the specifications start from and draw their inputs from.      *)
(***************************************************************************)
Line(ingredient_id, quantity, unit) ==
    [ingredient_id |-> ingredient_id, quantity |-> quantity, unit |-> unit]

IngredientRows ==
    <<[name |-> "Mehl", unit |-> "g", category |-> "Backwaren"],
      [name |-> "Zucker", unit |-> "g", category |-> "Backwaren"],
      [name |-> "Milch", unit |-> "ml", category |-> "Milchprodukte"]>>

\* two valid recipes sharing Mehl in g, and one whose base_servings the column
\* admits (models.py puts no CHECK on it) but the schemas would not
RecipeRows(bad_base_servings) ==
    <<[base_servings |-> 1,
       ingredients |-> <<Line(1, QInt(600), "g"), Line(3, QInt(300), "ml")>>,
       allergens |-> {"Gluten"}],
      [base_servings |-> 2,
       ingredients |-> <<Line(1, QInt(600), "g"), Line(1, QInt(1), "kg"),
                         Line(2, QInt(500), "g"), Line(1, QInt(200), "g")>>,
       allergens |-> {}],
      [base_servings |-> bad_base_servings,
       ingredients |-> <<Line(1, QInt(600), "g")>>,
       allergens |-> {}]>>

CampIds == {1, 2}
ParticipantCounts == {1, 2}
MealDateInputs == {0}

\* the rows posted to the single-row endpoint, and those posted in bulk
MealPlanInputs ==
    [camp_id : {1}, recipe_id : {NoRecipe} \cup {1, 2, 3},
     meal_date : MealDateInputs, meal_type : {"BREAKFAST", "DINNER"}]

BulkInputs ==
    {<<a>> : a \in [camp_id : {2}, recipe_id : {1, 3},
                    meal_date : MealDateInputs, meal_type : {"LUNCH"}]}

CampUpdateInputs == {("participant_count" :> p) : p \in ParticipantCounts}

InitTables ==
    /\ camps = (1 :> [start_date |-> 0, end_date |-> 0, participant_count |-> 1])
    /\ ingredients = IngredientRows
    /\ app_settings = EmptyDict
    /\ recipe_versions = {}
    /\ DEFAULT_CONVERSIONS = DefaultConversionsLiteral
    /\ request = [op |-> "none"]
    /\ response = [status |-> "none"]
    /\ running = EmptyDict

(***************************************************************************)
(* Spec: meal planning and the shopping list of a camp.                    *)
(***************************************************************************)
Init ==
    /\ InitTables
    /\ recipes = RecipeRows(0)
    /\ meal_plans = {}

Next ==
    \/ \E c \in CampIds : CalculateShoppingList(c)
    \/ \E c \in CampIds : GetCampStatistics(c)
    \/ \E r \in DOMAIN recipes : ScaleRecipe(r, camps[1].participant_count)
    \/ \E m \in MealPlanInputs : CreateMealPlan(m)
    \/ \E l \in BulkInputs : CreateBulkMealPlans(l)
    \/ \E c \in CampIds, u \in CampUpdateInputs : UpdateCamp(c, u)

Spec == Init /\ [][Next]_vars

(***************************************************************************)
(* SpecScale: scale_recipe on recipes and target servings drawn from       *)
(* bounded sets.                                                           *)
(***************************************************************************)
LineInputs ==
    {Line(i, q, u) : i \in {1, 2}, q \in {QInt(600), Q(1, 2)}, u \in {"g", "kg"}}

LineListInputs == UNION {[1..n -> LineInputs] : n \in 0..MaxLines}

InitScale ==
    /\ InitTables
    /\ \E b \in -1..MaxServings, ls \in LineListInputs :
           recipes = <<[base_servings |-> b, ingredients |-> ls, allergens |-> {}]>>
    /\ meal_plans = {}

NextScale == \E t \in 0..MaxServings : ScaleRecipe(1, t)

SpecScale == InitScale /\ [][NextScale]_vars

(***************************************************************************)
(* SpecUnits: the rule table, its runtime extension and convert_unit.      *)
(***************************************************************************)
UnitInputs == {"g", "ml", "mg", "kg", "Stueck"}

RuleInputs ==
    {<<"g", Rule(QInt(500), "kg", Q(1, 1000))>>,
     <<"g", Rule(QInt(2000), "kg", Q(1, 1000))>>,
     <<"kg", Rule(QInt(1000), "t", Q(1, 1000))>>,
     <<"Stueck", Rule(QInt(12), "Dutzend", Q(1, 12))>>}

\* the thresholds in use, one below, half below and one above each, and
\* quantities with more decimal places than any rounding keeps
QuantityInputs ==
    {QInt(0), Q(1, 2), Q(617, 500), Q(10011, 20), Q(2469, 2), Q(24691, 2)}
    \cup UNION {{QInt(t - 1), Q(2 * t - 1, 2), QInt(t), QInt(t + 1)} :
                    t \in {12, 500, 1000, 2000}}

InitUnits ==
    /\ InitTables
    /\ recipes = RecipeRows(0)
    /\ meal_plans = {}

NextUnits ==
    \/ \E ur \in RuleInputs : AddCustomConversion(ur[1], ur[2])
    \/ \E u \in UnitInputs : RemoveCustomConversion(u)
    \/ \E q \in QuantityInputs, u \in UnitInputs,
          custom \in {EmptyDict, load_custom_conversions(app_settings)} :
           ConvertUnit(q, u, custom)
    \/ GetAllConversions

SpecUnits == InitUnits /\ [][NextUnits]_vars

(***************************************************************************)
(* SpecSettings: convert_unit under the mappings the settings endpoint     *)
(* stores, which may be any JSON object.                                   *)
(***************************************************************************)
ConversionMappingInputs ==
    {EmptyDict,
     "g" :> Rule(QInt(500), "kg", Q(1, 1000)),
     "g" :> [target |-> "kg", factor |-> Q(1, 1000)],
     "g" :> [threshold |-> QInt(500), target |-> "kg"],
     "Stueck" :> [threshold |-> QInt(12), factor |-> Q(1, 12)]}

SettingsQuantityInputs == {QInt(0), QInt(12), QInt(499), QInt(500), QInt(1000)}

NextSettings ==
    \/ \E m \in ConversionMappingInputs : UpdateUnitConversions(m)
    \/ AddCustomConversion("ml", Rule(QInt(500), "L", Q(1, 1000)))
    \/ \E u \in {"g", "Stueck"} : RemoveCustomConversion(u)
    \/ \E q \in SettingsQuantityInputs, u \in {"g", "ml", "Stueck"} :
           ConvertUnit(q, u, load_custom_conversions(app_settings))
    \/ GetAllConversions

SpecSettings == InitUnits /\ [][NextSettings]_vars

(***************************************************************************)
(* SpecRecipes: recipes are created and updated through the recipe forms.  *)
(***************************************************************************)
RecipeLineListInputs ==
    {<<>>,
     <<Line(1, QInt(600), "g")>>,
     <<Line(1, QInt(600), "g"), Line(9, QInt(1), "kg")>>}

RecipeFormInputs == [base_servings : {0, 1, 2}, ingredients : RecipeLineListInputs]

InitRecipes ==
    /\ InitTables
    /\ recipes = <<>>
    /\ meal_plans = {}

NextRecipes ==
    \/ \E r \in RecipeFormInputs, fk \in BOOLEAN : CreateRecipe(r, fk)
    \/ \E id \in 1..MaxRecipes, u \in RecipeFormInputs, fk \in BOOLEAN :
           UpdateRecipe(id, u, fk)

SpecRecipes == InitRecipes /\ [][NextRecipes]_vars

(***************************************************************************)
(* SpecConfigured: the shopping list of a camp while unit conversion rules *)
(* are stored in and removed from the settings.                            *)
(***************************************************************************)
ConfiguredMealPlanInputs ==
    [camp_id : {1}, recipe_id : {1, 2}, meal_date : MealDateInputs,
     meal_type : {"BREAKFAST"}]

ConfiguredRuleInputs ==
    {<<"g", Rule(QInt(500), "kg", Q(1, 1000))>>,
     <<"g", Rule(QInt(2000), "kg", Q(1, 1000))>>}

NextConfigured ==
    \/ \E ur \in ConfiguredRuleInputs : AddCustomConversion(ur[1], ur[2])
    \/ \E ur \in ConfiguredRuleInputs : RemoveCustomConversion(ur[1])
    \/ \E m \in ConfiguredMealPlanInputs : CreateMealPlan(m)
    \/ \E u \in CampUpdateInputs : UpdateCamp(1, u)
    \/ CalculateShoppingList(1)
    \/ GetAllConversions

SpecConfigured == InitUnits /\ [][NextConfigured]_vars

(***************************************************************************)
(* SpecPlanning: the statistics of a camp while its meal plan and its date *)
(* range change.  Camp dates come from "%Y-%m-%d" forms and are midnights; *)
(* meal dates are any datetime.                                            *)
(***************************************************************************)
PlanningMealPlanInputs ==
    [camp_id : {1}, recipe_id : {NoRecipe, 2}, meal_date : MealDateInputs,
     meal_type : {"BREAKFAST"}]

PlanningBulkInputs ==
    {<<[camp_id |-> 1, recipe_id |-> 1, meal_date |-> 0, meal_type |-> "LUNCH"],
       [camp_id |-> 1, recipe_id |-> 3, meal_date |-> 0, meal_type |-> "DINNER"]>>}

\* noon of the first day and midnight of the second
CopyDateInputs == {1, TicksPerDay}

PlanningCampUpdateInputs ==
    {("end_date" :> d * TicksPerDay) : d \in 0..2}
    \cup {("start_date" :> 0) @@ ("end_date" :> d * TicksPerDay) : d \in {0, 2}}

NextPlanning ==
    \/ GetCampStatistics(1)
    \/ \E m \in PlanningMealPlanInputs : CreateMealPlan(m)
    \/ \E l \in PlanningBulkInputs : CreateBulkMealPlans(l)
    \/ \E i \in 1..(MaxMealPlans + 1), d \in CopyDateInputs, t \in {NoMealType, "LUNCH"} :
           CopyMealPlan(i, d, t)
    \/ \E i \in 1..(MaxMealPlans + 1) : DeleteMealPlan(i)
    \/ \E u \in PlanningCampUpdateInputs : UpdateCamp(1, u)

SpecPlanning == Init /\ [][NextPlanning]_vars

(***************************************************************************)
(* SpecConcurrent: up to MaxCalls calculations in flight at once, with     *)
(* meal plans created and the camp updated in between.                     *)
(***************************************************************************)
CallIds == 1..MaxCalls

CalculationOps == {"calculate_shopping_list", "get_camp_statistics"}

ConcurrentMealPlanInputs ==
    [camp_id : {1}, recipe_id : {1, 3}, meal_date : MealDateInputs, meal_type : {"BREAKFAST"}]

NextConcurrent ==
    \/ \E c \in CallIds, op \in CalculationOps, camp_id \in CampIds : StartCall(c, op, camp_id)
    \/ \E c \in CallIds : ReadMealPlans(c)
    \/ \E c \in CallIds : AggregateNext(c)
    \/ \E c \in CallIds : BuildShoppingList(c)
    \/ \E c \in CallIds : ComputeStatistics(c)
    \/ \E c \in CallIds : ReturnCall(c)
    \/ \E m \in ConcurrentMealPlanInputs : CreateMealPlan(m)
    \/ UpdateCamp(1, ("participant_count" :> 2))

SpecConcurrent == Init /\ [][NextConcurrent]_vars

(***************************************************************************)
(* SpecPending: create requests that arrive together.  Rows are deleted    *)
(* only while no create request is in flight, so that nothing but the two  *)
(* requests touches the slot between their arrival and their answers.      *)
(***************************************************************************)
PendingMealPlanInputs ==
    [camp_id : {1}, recipe_id : {1}, meal_date : MealDateInputs,
     meal_type : {"BREAKFAST", "LUNCH"}]

NextPending ==
    \/ \E c \in CallIds, m \in PendingMealPlanInputs : ReceiveCreateMealPlan(c, m)
    \/ \E c \in CallIds : ReadSlotCount(c)
    \/ \E c \in CallIds : InsertMealPlan(c)
    \/ \E c \in CallIds : ForgetCall(c)
    \/ \E id \in 1..MaxMealPlans : running = EmptyDict /\ DeleteMealPlan(id)

SpecPending == Init /\ [][NextPending]_vars

(***************************************************************************)
(* SpecCamps: camps are created and their dates updated, one field or both *)
(* at a time.                                                              *)
(***************************************************************************)
\* the midnights the date forms are parsed to
CampDateInputs == {d * TicksPerDay : d \in 0..2}

CampDateUpdateInputs ==
    {("start_date" :> d) : d \in CampDateInputs}
    \cup {("end_date" :> d) : d \in CampDateInputs}
    \cup {("start_date" :> d) @@ ("end_date" :> e) : d, e \in CampDateInputs}

NextCamps ==
    \/ \E d, e \in CampDateInputs, p \in 0..1 : CreateCamp(d, e, p)
    \/ \E c \in 1..MaxCamps, u \in CampDateUpdateInputs : UpdateCamp(c, u)
    \/ \E c \in 1..MaxCamps : GetCampStatistics(c)

SpecCamps == Init /\ [][NextCamps]_vars

(***************************************************************************)
(* SpecGrouping: the shopping list of recipes whose lines name the         *)
(* ingredients and categories out of alphabetical order.                   *)
(***************************************************************************)
GroupingRecipeRows ==
    <<[base_servings |-> 1,
       ingredients |-> <<Line(3, QInt(300), "ml"), Line(2, QInt(100), "g"),
                         Line(1, QInt(600), "g")>>,
       allergens |-> {}],
      [base_servings |-> 2,
       ingredients |-> <<Line(2, QInt(500), "g"), Line(1, QInt(1), "kg")>>,
       allergens |-> {}]>>

GroupingMealPlanInputs ==
    [camp_id : {1}, recipe_id : {1, 2}, meal_date : MealDateInputs,
     meal_type : {"BREAKFAST", "LUNCH"}]

InitGrouping ==
    /\ InitTables
    /\ recipes = GroupingRecipeRows
    /\ meal_plans = {}

NextGrouping ==
    \/ \E m \in GroupingMealPlanInputs : CreateMealPlan(m)
    \/ \E u \in CampUpdateInputs : UpdateCamp(1, u)
    \/ CalculateShoppingList(1)

SpecGrouping == InitGrouping /\ [][NextGrouping]_vars

(***************************************************************************)
(* What a shopping list must contain, stated from the tables alone.        *)
(***************************************************************************)
\* the camp's slots that have an assigned recipe
AssignedSlots(camp_id) ==
    {r \in meal_plans : r.camp_id = camp_id /\ r.recipe_id \in DOMAIN recipes}

\* every (slot, line number) of the slots' recipes
SlotLines(slots) ==
    UNION {{<<r, i>> : i \in 1..Len(recipes[r.recipe_id].ingredients)} : r \in slots}

LineOf(slot_line) == recipes[slot_line[1].recipe_id].ingredients[slot_line[2]]

KeyOf(slot_line) == <<LineOf(slot_line).ingredient_id, LineOf(slot_line).unit>>

\* every (slot, line number) whose line has the given ingredient and unit
LinesOfKey(slots, key) == {sl \in SlotLines(slots) : KeyOf(sl) = key}

KeysOf(slots) == {KeyOf(sl) : sl \in SlotLines(slots)}

\* line.quantity * participant_count / base_servings
ScaledQuantity(slot_line, participant_count) ==
    LET rec == recipes[slot_line[1].recipe_id]
        line == rec.ingredients[slot_line[2]]
    IN  Q(line.quantity.n * participant_count, line.quantity.d * rec.base_servings)

RECURSIVE SumScaled(_, _)
SumScaled(slot_lines, participant_count) ==
    IF slot_lines = {} THEN QInt(0)
    ELSE LET x == CHOOSE x \in slot_lines : TRUE
         IN  QAdd(ScaledQuantity(x, participant_count),
                  SumScaled(slot_lines \ {x}, participant_count))

ItemsOf(result) == {result.items[i] : i \in 1..Len(result.items)}

ShoppingListReturned ==
    request.op = "calculate_shopping_list" /\ response.status = "ok"

\* C1: a returned shopping list holds exactly one item per (ingredient id, unit)
\* pair of the lines of the recipes assigned to the camp's slots, and the item's
\* original_quantity is the sum over those slots and lines of
\* quantity * participant_count / base_servings; no-recipe slots add nothing.
C1_OneItemPerKeyWithSummedQuantity ==
    ShoppingListReturned =>
        LET slots == AssignedSlots(request.camp_id)
            p == camps[request.camp_id].participant_count
        IN  /\ Len(response.items) = Cardinality(KeysOf(slots))
            /\ {<<it.ingredient_id, it.original_unit>> : it \in ItemsOf(response)}
                   = KeysOf(slots)
            /\ \A it \in ItemsOf(response) :
                   it.original_quantity =
                       SumScaled(LinesOfKey(slots, <<it.ingredient_id, it.original_unit>>), p)

\* recipe 1, recipe 2 and a "no meal" slot: at 2 participants Mehl in g sums
\* 600 * 2 / 1 + (600 + 200) * 2 / 2 = 2000
C1_Witness ==
    /\ ShoppingListReturned
    /\ request.camp_id = 1
    /\ camps[1].participant_count = 2
    /\ \E a, b, c \in meal_plans :
           /\ a.camp_id = 1 /\ b.camp_id = 1 /\ c.camp_id = 1
           /\ a.recipe_id = 1 /\ b.recipe_id = 2 /\ c.recipe_id = NoRecipe
    /\ \E it \in ItemsOf(response) :
           /\ it.ingredient_id = 1 /\ it.original_unit = "g"
           /\ it.original_quantity = QInt(2000)

\* what one slot adds to a key: the scaled lines of its recipe with that key
SlotContribution(slot, key, participant_count) ==
    SumScaled(LinesOfKey({slot}, key), participant_count)

\* the rule table in force: the built-ins overlaid with the stored rules
RulesInForce ==
    LET custom == load_custom_conversions(app_settings)
    IN  [u \in DOMAIN DefaultConversionsLiteral \cup DOMAIN custom |->
            IF u \in DOMAIN custom THEN custom[u] ELSE DefaultConversionsLiteral[u]]

\* C2: the threshold is tested on the camp-wide sum of a key: an item whose
\* summed quantity reaches the threshold of its unit carries the target unit
\* (however small each slot's share), one below keeps its unit; and
\* scale_recipe returns every line in the unit it was stored in.
C2_ThresholdOnCampWideSum ==
    /\ ShoppingListReturned =>
           \A it \in ItemsOf(response) :
               LET u == it.original_unit
                   total == SumScaled(LinesOfKey(AssignedSlots(request.camp_id),
                                                 <<it.ingredient_id, u>>),
                                      camps[request.camp_id].participant_count)
               IN  IF u \in DOMAIN RulesInForce /\ QGeq(total, RulesInForce[u].threshold)
                   THEN it.unit = RulesInForce[u].target
                   ELSE it.unit = u
    /\ (request.op = "scale_recipe" /\ response.status = "ok") =>
           \A i \in 1..Len(response.ingredients) :
               response.ingredients[i].unit = recipes[request.recipe_id].ingredients[i].unit

\* two slots of recipe 2 at 2 participants: 800 g of Mehl each, 1600 g together
C2_Witness ==
    /\ ShoppingListReturned
    /\ \E it \in ItemsOf(response) :
           LET key == <<it.ingredient_id, it.original_unit>>
               slots == AssignedSlots(request.camp_id)
               p == camps[request.camp_id].participant_count
           IN  /\ it.original_unit = "g"
               /\ it.unit = "kg"
               /\ Cardinality(slots) >= 2
               /\ \A r \in slots :
                      QLt(SlotContribution(r, key, p), DefaultConversionsLiteral["g"].threshold)

\* C7: calculate_shopping_list for a camp id without a camp raises the
\* not-found ValueError and returns nothing, whatever meal plan rows exist.
C7_MissingCampRaises ==
    (request.op = "calculate_shopping_list" /\ request.camp_id \notin DOMAIN camps) =>
        /\ response.status = "ValueError"
        /\ response.message = "Camp not found"
        /\ DOMAIN response = {"status", "message"}

C7_Witness ==
    /\ request.op = "calculate_shopping_list"
    /\ request.camp_id \notin DOMAIN camps
    /\ \E r \in meal_plans : r.camp_id = request.camp_id /\ r.recipe_id \in DOMAIN recipes
    /\ response.status = "ValueError"

\* the camp's slots whose assigned recipe cannot be scaled
InvalidSlots(camp_id) ==
    {r \in AssignedSlots(camp_id) : recipes[r.recipe_id].base_servings <= 0}

\* C9: no partial result: with a slot whose assigned recipe has
\* base_servings <= 0 the call raises and returns nothing, wherever that slot
\* stands in the row order; without one it returns the complete list.
C9_NoPartialResult ==
    (request.op = "calculate_shopping_list" /\ request.camp_id \in DOMAIN camps) =>
        IF InvalidSlots(request.camp_id) # {}
        THEN /\ response.status = "ValueError"
             /\ DOMAIN response = {"status", "message"}
        ELSE /\ response.status = "ok"
             /\ {<<it.ingredient_id, it.original_unit>> : it \in ItemsOf(response)}
                    = KeysOf(AssignedSlots(request.camp_id))

\* the invalid slot stands between two valid ones in the row order
C9_Witness ==
    /\ request.op = "calculate_shopping_list"
    /\ response.status = "ValueError"
    /\ LET plans == get_meal_plans_for_camp(meal_plans, request.camp_id)
       IN  /\ Len(plans) = 3
           /\ plans[1].recipe_id = 1
           /\ plans[2] \in InvalidSlots(request.camp_id)
           /\ plans[3].recipe_id = 2

\* C10: get_camp_statistics for a camp id without a camp returns the empty
\* result and raises nothing; calculate_shopping_list for that id raises.
C10_MissingCampStatisticsEmpty ==
    /\ (request.op = "get_camp_statistics" /\ request.camp_id \notin DOMAIN camps) =>
           /\ response.status = "ok"
           /\ response.empty
           /\ DOMAIN response = {"status", "empty"}
    /\ (request.op = "calculate_shopping_list" /\ request.camp_id \notin DOMAIN camps) =>
           response.status = "ValueError"

C10_Witness ==
    /\ request.op = "get_camp_statistics"
    /\ request.camp_id \notin DOMAIN camps
    /\ meal_plans # {}
    /\ response.status = "ok"
    /\ response.empty

\* C3: the shopping list normalises with the rule table as extended at
\* runtime: an aggregated quantity at or above the threshold of the rule in
\* force for its unit (a stored rule replacing the built-in one) carries that
\* rule's target unit, one below it keeps its unit.
C3_ShoppingListUsesStoredRules ==
    ShoppingListReturned =>
        \A it \in ItemsOf(response) :
            LET u == it.original_unit
            IN  IF u \in DOMAIN RulesInForce
                   /\ QGeq(it.original_quantity, RulesInForce[u].threshold)
                THEN it.unit = RulesInForce[u].target
                ELSE it.unit = u

ScaleReturned == request.op = "scale_recipe"

\* C4: for base_servings > 0 scale_recipe returns one entry per ingredient
\* line, in line order, with quantity line.quantity * target / base and the
\* line's unit and ingredient, and hands back the recipe as stored.
C4_ScaledLinePerIngredientLine ==
    (ScaleReturned /\ recipes[request.recipe_id].base_servings > 0) =>
        LET recipe == recipes[request.recipe_id]
        IN  /\ response.status = "ok"
            /\ response.recipe = recipe
            /\ Len(response.ingredients) = Len(recipe.ingredients)
            /\ \A i \in 1..Len(recipe.ingredients) :
                   LET line == recipe.ingredients[i]
                       out == response.ingredients[i]
                   IN  /\ out.quantity.n * (line.quantity.d * recipe.base_servings)
                              = line.quantity.n * request.target_servings * out.quantity.d
                       /\ out.quantity.d > 0
                       /\ out.unit = line.unit
                       /\ out.ingredient_id = line.ingredient_id
                       /\ out.ingredient = ingredients[line.ingredient_id]

\* 1/2 kg at base 2 scaled to 3 servings is 3/4 kg
C4_Witness ==
    /\ ScaleReturned
    /\ response.status = "ok"
    /\ recipes[1].base_servings = 2
    /\ request.target_servings = 3
    /\ Len(response.ingredients) = 2
    /\ recipes[1].ingredients[2] = Line(2, Q(1, 2), "kg")
    /\ response.ingredients[2].quantity = Q(3, 4)

\* C8: for base_servings <= 0 scale_recipe raises the base_servings
\* ValueError (the spec's InvalidRecipe) for every target and ingredient list,
\* and returns no quantities.
C8_InvalidBaseServingsRaises ==
    (ScaleReturned /\ recipes[request.recipe_id].base_servings <= 0) =>
        /\ response.status = "ValueError"
        /\ response.message = "Recipe base_servings must be greater than 0"
        /\ DOMAIN response = {"status", "message"}

C8_Witness ==
    /\ ScaleReturned
    /\ recipes[1].base_servings = -1
    /\ recipes[1].ingredients = <<>>
    /\ request.target_servings = 0
    /\ response.status = "ValueError"

ConvertReturned == request.op = "convert_unit"

\* the built-in rules overlaid with the rules passed to the call
RulesOfCall ==
    [u \in DOMAIN DefaultConversionsLiteral \cup DOMAIN request.custom_conversions |->
        IF u \in DOMAIN request.custom_conversions THEN request.custom_conversions[u]
        ELSE DefaultConversionsLiteral[u]]

\* |x - y| <= 1/20, the widest rounding step halved
WithinRounding(x, y) ==
    20 * Abs(x.n * y.d - y.n * x.d) <= x.d * y.d

\* C5: convert_unit converts (was_converted, the rule's target, quantity *
\* factor up to rounding) exactly when the merged table has a rule for the
\* unit and quantity >= its threshold; otherwise the unit comes back unchanged
\* with was_converted false.
C5_ConvertsIffThresholdReached ==
    ConvertReturned =>
        LET u == request.unit
            q == request.quantity
            applies == u \in DOMAIN RulesOfCall /\ QGeq(q, RulesOfCall[u].threshold)
        IN  /\ response.was_converted = applies
            /\ applies =>
                   /\ response.unit = RulesOfCall[u].target
                   /\ WithinRounding(response.quantity, QMul(q, RulesOfCall[u].factor))
            /\ ~applies => response.unit = u

\* 1000 g is converted, and so is 500 g under a stored rule with threshold 500
C5_Witness ==
    /\ ConvertReturned
    /\ request.unit = "g"
    /\ request.quantity = QInt(500)
    /\ "g" \in DOMAIN request.custom_conversions
    /\ request.custom_conversions["g"].threshold = QInt(500)
    /\ response.was_converted
    /\ response.unit = "kg"
    /\ response.quantity = Q(1, 2)

\* C6: the effective table is the built-ins overlaid with the runtime rules
\* (the runtime rule wins for a unit in both, the built-in rule applies to a
\* unit only in the built-ins, also after a custom override was removed), and
\* the built-in table is never modified.
C6_RuntimeRulesOverlayBuiltins ==
    /\ DEFAULT_CONVERSIONS = DefaultConversionsLiteral
    /\ request.op = "get_all_conversions" =>
           LET custom == load_custom_conversions(app_settings)
               all == response.conversions
           IN  /\ DOMAIN all = DOMAIN DefaultConversionsLiteral \cup DOMAIN custom
               /\ \A u \in DOMAIN custom : all[u] = custom[u]
               /\ \A u \in DOMAIN DefaultConversionsLiteral \ DOMAIN custom :
                      all[u] = DefaultConversionsLiteral[u]
    /\ (ConvertReturned /\ request.unit \in DOMAIN request.custom_conversions) =>
           /\ response.was_converted
                  = QGeq(request.quantity,
                         request.custom_conversions[request.unit].threshold)
           /\ response.was_converted =>
                  response.unit = request.custom_conversions[request.unit].target

\* a stored rule for g overrides the built-in one in the table returned
C6_Witness ==
    /\ request.op = "get_all_conversions"
    /\ "g" \in DOMAIN load_custom_conversions(app_settings)
    /\ "kg" \in DOMAIN load_custom_conversions(app_settings)
    /\ response.conversions["g"].threshold = QInt(2000)
    /\ response.conversions["ml"] = DefaultConversionsLiteral["ml"]
    /\ DEFAULT_CONVERSIONS["g"].threshold = QInt(1000)

(***************************************************************************)
(* What the statistics of a camp must report, stated from the tables.      *)
(***************************************************************************)
\* the last call was get_camp_statistics on an existing camp
StatisticsReturned ==
    /\ request.op = "get_camp_statistics"
    /\ response.status = "ok"
    /\ ~response.empty

CampRows(camp_id) == {r \in meal_plans : r.camp_id = camp_id}

\* the (calendar date, meal type) pairs the camp has a row for
PlannedSlots(camp_id) ==
    {<<DateOf(r.meal_date), r.meal_type>> : r \in CampRows(camp_id)}

\* C11: planned_meals is the number of distinct (calendar date, meal type)
\* pairs that have at least one row of the camp, rows with and without a recipe
\* alike; several rows of one pair count once.
C11_PlannedMealsCountsDistinctSlots ==
    StatisticsReturned =>
        /\ response.planned_meals = Cardinality(PlannedSlots(request.camp_id))
        /\ \A r \in CampRows(request.camp_id) :
               response.planned_meals
                   = 1 + Cardinality(PlannedSlots(request.camp_id)
                                        \ {<<DateOf(r.meal_date), r.meal_type>>})

\* statistics of a camp with two rows in one slot, one of them without a recipe,
\* and a second slot at another time of the same day
C11_Witness ==
    /\ StatisticsReturned
    /\ response.planned_meals = 2
    /\ \E a, b, c \in CampRows(request.camp_id) :
           /\ a.id # b.id
           /\ DateOf(a.meal_date) = DateOf(b.meal_date) /\ a.meal_type = b.meal_type
           /\ a.recipe_id = NoRecipe /\ b.recipe_id # NoRecipe
           /\ c.meal_type # a.meal_type

\* C12: after any sequence of create, copy, bulk create, delete and camp
\* update, the statistics report planned_meals <= expected_meals and a
\* completion_percentage of at most 100.
C12_PlannedNeverExceedsExpected ==
    StatisticsReturned =>
        /\ response.planned_meals <= response.expected_meals
        /\ ~QLt(QInt(100), response.completion_percentage)

\* C13: total_days is the number of days from the start date to the end date
\* inclusive, (end_date - start_date).days + 1, and expected_meals is three
\* times that, whatever the meal plan rows are.
C13_TotalDaysInclusiveExpectedThreePerDay ==
    StatisticsReturned =>
        LET camp == camps[request.camp_id]
        IN  /\ response.total_days = (camp.end_date - camp.start_date) \div TicksPerDay + 1
            /\ response.total_days
                   = Cardinality(DateOf(camp.start_date)..DateOf(camp.end_date))
            /\ response.expected_meals = 3 * response.total_days

\* statistics of a three-day camp that has meal plan rows
C13_Witness ==
    /\ StatisticsReturned
    /\ response.total_days = 3
    /\ response.expected_meals = 9
    /\ CampRows(request.camp_id) # {}

\* C14: completion_percentage is planned_meals / expected_meals * 100 rounded
\* to one decimal when expected_meals > 0, and 0 otherwise; it is always
\* computed.
C14_CompletionPercentageRounded ==
    StatisticsReturned =>
        LET p == response.planned_meals
            e == response.expected_meals
            c == response.completion_percentage
        IN  /\ e > 0 =>
                  /\ c.d \in {1, 2, 5, 10}
                  \* c is the multiple of 1/10 nearest to 100 p / e
                  /\ 2 * Abs(e * c.n * 10 - 1000 * p * c.d) <= e * c.d
            /\ e <= 0 => c = QInt(0)

\* scenario of two planned slots in a three-day camp: 22.2
C14_Witness ==
    /\ StatisticsReturned
    /\ response.planned_meals = 2
    /\ response.expected_meals = 9
    /\ response.completion_percentage = Q(111, 5)

\* C15: total_recipes of the shopping list is the number of distinct recipes
\* the camp's slots refer to, and so equals unique_recipes of the statistics
\* of the same camp and rows, also when some slots have no recipe.
C15_TotalRecipesCountsDistinctRecipes ==
    ShoppingListReturned =>
        /\ response.total_recipes
               = Cardinality({r.recipe_id : r \in CampRows(request.camp_id)} \ {NoRecipe})
        /\ response.total_recipes
               = get_camp_statistics(camps, recipes, meal_plans, request.camp_id).unique_recipes

(***************************************************************************)
(* The shopping list of the camp's rows taken in another order.            *)
(***************************************************************************)
RowOrders(n) == {p \in [1..n -> 1..n] : \A i, j \in 1..n : p[i] = p[j] => i = j}

Permuted(seq, p) == [i \in 1..Len(seq) |-> seq[p[i]]]

\* what the list holds, without the order of the items
ListContent(result) ==
    IF result.status # "ok" THEN [status |-> result.status]
    ELSE [status |-> "ok",
          items |-> ItemsOf(result),
          category_order |-> result.categories.order,
          category_items |-> [c \in DOMAIN result.categories.lists |->
                                 {result.categories.lists[c][i] :
                                      i \in 1..Len(result.categories.lists[c])}]]

ReadOnlyOps == {"calculate_shopping_list", "get_camp_statistics", "scale_recipe"}

\* C17: calculate_shopping_list, get_camp_statistics and scale_recipe write
\* nothing: over a call of one of them, returning or raising, the camps, meal
\* plan rows, recipes with their ingredient lines, ingredients and settings
\* stay what they were.
C17_CalculationsAreReadOnly ==
    [][request'.op \in ReadOnlyOps => db' = db]_vars

\* a raising calculate_shopping_list on a camp with a no-recipe row and a row
\* whose recipe cannot be scaled
C17_Witness ==
    /\ request.op = "calculate_shopping_list"
    /\ response.status = "ValueError"
    /\ \E r \in CampRows(request.camp_id) : r.recipe_id = NoRecipe
    /\ \E r \in CampRows(request.camp_id) : r.recipe_id = 3

(***************************************************************************)
(* Calculations in flight at once.                                         *)
(***************************************************************************)
\* what the call with these locals returns when nothing else runs, on the camp
\* and the meal plans it has read
AloneResult(locals) ==
    IF ~locals.found
    THEN IF locals.op = "calculate_shopping_list" THEN ShoppingListForMissingCamp
         ELSE StatisticsForMissingCamp
    ELSE IF locals.op = "calculate_shopping_list"
    THEN ShoppingListOf(locals.camp, recipes, ingredients, locals.plans, app_settings,
                        DEFAULT_CONVERSIONS)
    ELSE StatisticsOf(locals.camp, recipes, locals.plans)

\* C18: calls in flight at once do not interfere: whatever the interleaving of
\* their steps and of the writes between them, each call's accumulator holds
\* only its own rows and each call ends with the result it would give when run
\* alone on the camp and the meal plan rows it read.
C18_ConcurrentCallsDoNotInterfere ==
    \A c \in DOMAIN running :
        /\ running[c].pc = "done" => running[c].result = AloneResult(running[c])
        /\ running[c].pc = "aggregate" =>
               running[c].aggregated
                   = AggregateMealPlans(recipes, ingredients, running[c].camp,
                                        SubSeq(running[c].plans, 1, running[c].i - 1), 1,
                                        EmptyAggregated).aggregated

\* two shopping lists of the same camp in flight: one is complete, the other
\* is in its loop, and a write between their reads gave them different rows
C18_Witness ==
    \E c, o \in DOMAIN running :
        /\ c # o
        /\ running[c].op = "calculate_shopping_list"
        /\ running[o].op = "calculate_shopping_list"
        /\ running[c].camp_id = running[o].camp_id
        /\ running[c].pc = "done"
        /\ running[c].result.status = "ok"
        /\ running[c].result.items # <<>>
        /\ running[o].pc = "aggregate"
        /\ running[o].i > 1
        /\ running[o].plans # running[c].plans

(***************************************************************************)
(* The warnings of the statistics.                                         *)
(***************************************************************************)
WarningsOfKind(kind) ==
    {i \in 1..Len(response.warnings) : response.warnings[i].kind = kind}

\* C19: the "meals not yet planned" warning is in the list exactly when
\* planned_meals < expected_meals, once, and names expected_meals -
\* planned_meals.
C19_MissingMealsWarningIffShortfall ==
    StatisticsReturned =>
        LET mine == WarningsOfKind("meals_not_planned")
        IN  /\ (mine # {}) <=> (response.planned_meals < response.expected_meals)
            /\ Cardinality(mine) <= 1
            /\ \A i \in mine :
                   response.warnings[i].count
                       = response.expected_meals - response.planned_meals

\* two of the three meals of a one-day camp are planned: the warning names 1
C19_Witness ==
    /\ StatisticsReturned
    /\ response.expected_meals = 3
    /\ response.planned_meals = 2
    /\ \E i \in WarningsOfKind("meals_not_planned") : response.warnings[i].count = 1

\* the distinct recipes of the camp's slots that have no allergen tag
UntaggedRecipes(camp_id) ==
    {id \in {r.recipe_id : r \in CampRows(camp_id)} \ {NoRecipe} :
        id \in DOMAIN recipes /\ recipes[id].allergens = {}}

\* C20: the missing-allergen warning is in the list exactly when some recipe
\* of a slot of the camp has no allergen tag, and names the number of such
\* distinct recipes: a recipe in several slots counts once, slots without a
\* recipe are ignored.
C20_AllergenWarningCountsUntaggedRecipes ==
    StatisticsReturned =>
        LET mine == WarningsOfKind("recipes_without_allergens")
        IN  /\ (mine # {}) <=> (UntaggedRecipes(request.camp_id) # {})
            /\ Cardinality(mine) <= 1
            /\ \A i \in mine :
                   response.warnings[i].count
                       = Cardinality(UntaggedRecipes(request.camp_id))

\* an untagged recipe in two slots beside a slot without a recipe: the warning
\* names 1
C20_Witness ==
    /\ StatisticsReturned
    /\ \E a, b, c \in CampRows(request.camp_id) :
           /\ a.id # b.id
           /\ a.recipe_id = b.recipe_id
           /\ a.recipe_id \in UntaggedRecipes(request.camp_id)
           /\ c.recipe_id = NoRecipe
    /\ \E i \in WarningsOfKind("recipes_without_allergens") : response.warnings[i].count = 1

(***************************************************************************)
(* The daily overview of the statistics.                                   *)
(***************************************************************************)
\* the rows of a day entry under a meal type, as a set
EntryRows(entry, meal_type) ==
    {entry.meals[meal_type][i] : i \in 1..Len(entry.meals[meal_type])}

\* the camp's rows on a calendar day with a meal type
RowsOn(camp_id, day, meal_type) ==
    {r \in CampRows(camp_id) : DateOf(r.meal_date) = day /\ r.meal_type = meal_type}

\* C21: daily_overview has one entry per day of the camp's date range, in
\* date order; under each meal type an entry holds exactly the camp's rows of
\* that calendar day and type, meals_planned is the number of types with a
\* row that day, and a row dated inside the range is in exactly one entry.
C21_DailyOverviewListsRowsPerDayAndType ==
    StatisticsReturned =>
        LET camp == camps[request.camp_id]
            overview == response.daily_overview
            first == DateOf(camp.start_date)
        IN  /\ Len(overview) = DateOf(camp.end_date) - first + 1
            /\ \A d \in 1..Len(overview) :
                   /\ overview[d].day_number = d
                   /\ DateOf(overview[d].date) = first + d - 1
                   /\ \A t \in MealTypes :
                          /\ EntryRows(overview[d], t) = RowsOn(request.camp_id, first + d - 1, t)
                          /\ Len(overview[d].meals[t])
                                 = Cardinality(RowsOn(request.camp_id, first + d - 1, t))
                   /\ overview[d].meals_planned
                          = Cardinality({t \in MealTypes :
                                            RowsOn(request.camp_id, first + d - 1, t) # {}})
            /\ \A r \in CampRows(request.camp_id) :
                   DateOf(r.meal_date) \in first..DateOf(camp.end_date) =>
                       Cardinality({<<d, t>> \in (1..Len(overview)) \X MealTypes :
                                       r \in EntryRows(overview[d], t)}) = 1

\* a two-day camp with a row at noon of its first day and a row on its second
C21_Witness ==
    /\ StatisticsReturned
    /\ Len(response.daily_overview) = 2
    /\ \E r \in EntryRows(response.daily_overview[1], "BREAKFAST") :
           r.meal_date # response.daily_overview[1].date
    /\ response.daily_overview[2].meals_planned >= 1

RECURSIVE SumMealsPlanned(_, _)
SumMealsPlanned(overview, d) ==
    IF d = 0 THEN 0 ELSE overview[d].meals_planned + SumMealsPlanned(overview, d - 1)

\* C27: after any sequence of create, copy, delete and camp update the sum
\* of meals_planned over the entries of daily_overview equals planned_meals of
\* the same statistics.
C27_DailyOverviewSumsToPlannedMeals ==
    StatisticsReturned =>
        SumMealsPlanned(response.daily_overview, Len(response.daily_overview))
            = response.planned_meals

(***************************************************************************)
(* The positions of the rows of a meal slot.                               *)
(***************************************************************************)
\* C28: after any sequence of create_meal_plan and delete_meal_plan calls a
\* create_meal_plan for an existing camp succeeds, and no two rows of one
\* (camp, meal date, meal type) slot share a position.
C28_CreateSucceedsWithFreePosition ==
    /\ request.op = "create_meal_plan" => response.status = "200"
    /\ \A a, b \in meal_plans :
           (SameSlot(a, b) /\ a.position = b.position) => a.id = b.id

(***************************************************************************)
(* The date range of a camp.                                               *)
(***************************************************************************)
CampWrites == {"create_camp", "update_camp"}

\* C26: every stored camp has start_date <= end_date after any sequence of
\* create_camp and update_camp, updates of one date alone included, so the
\* statistics see total_days >= 1 and expected_meals >= 3; a create or update
\* that is rejected leaves the camps as they were.
C26_CampDatesStayOrdered ==
    /\ [](\A c \in DOMAIN camps : camps[c].start_date <= camps[c].end_date)
    /\ [](StatisticsReturned =>
             response.total_days >= 1 /\ response.expected_meals >= 3)
    /\ [][(request'.op \in CampWrites /\ response'.status \notin {"200", "302"})
             => camps' = camps]_vars

\* an update of start_date alone to a day after end_date was rejected
C26_Witness ==
    /\ request.op = "update_camp"
    /\ response.status = "500"
    /\ \E c \in DOMAIN camps : camps[c].start_date < camps[c].end_date

(***************************************************************************)
(* The categories of a shopping list.                                      *)
(***************************************************************************)
RECURSIVE SumOfLengths(_, _)
SumOfLengths(lists, cats) ==
    IF cats = {} THEN 0
    ELSE LET c == CHOOSE c \in cats : TRUE
         IN  Len(lists[c]) + SumOfLengths(lists, cats \ {c})

\* C22: the categories of a shopping list come in ascending order of their
\* names, each category's list in ascending order of the ingredient names,
\* every item is in the list of its ingredient's category and in no other, and
\* the lists together hold exactly the total_items items of the flat list.
C22_CategoriesSortedAndComplete ==
    ShoppingListReturned =>
        LET order == response.categories.order
            lists == response.categories.lists
        IN  /\ \A i, j \in 1..Len(order) :
                   i < j => StringRank(order[i]) < StringRank(order[j])
            /\ {order[i] : i \in 1..Len(order)} = DOMAIN lists
            /\ \A c \in DOMAIN lists :
                   /\ \A i, j \in 1..Len(lists[c]) :
                          i < j => StringRank(lists[c][i].ingredient.name)
                                      <= StringRank(lists[c][j].ingredient.name)
                   /\ \A i \in 1..Len(lists[c]) :
                          /\ lists[c][i].ingredient.category = c
                          /\ lists[c][i] \in ItemsOf(response)
            /\ \A it \in ItemsOf(response) :
                   /\ it.ingredient.category \in DOMAIN lists
                   /\ Cardinality({i \in 1..Len(lists[it.ingredient.category]) :
                                       lists[it.ingredient.category][i] = it}) = 1
            /\ SumOfLengths(lists, DOMAIN lists) = response.total_items
            /\ response.total_items = Len(response.items)
            /\ Cardinality(ItemsOf(response)) = Len(response.items)

\* a list whose items were added as Milch, Zucker, Mehl: both the categories
\* and the items of Backwaren had to be put in order
C22_Witness ==
    /\ ShoppingListReturned
    /\ Len(response.items) >= 3
    /\ response.items[1].ingredient.name = "Milch"
    /\ response.items[2].ingredient.name = "Zucker"
    /\ response.categories.order = <<"Backwaren", "Milchprodukte">>
    /\ response.categories.lists["Backwaren"][1].ingredient.name = "Mehl"

\* C23: scaling a recipe with base_servings > 0 to its own base_servings
\* returns factor 1 and, for every ingredient line, the stored quantity.
C23_ScalingToBaseServingsIsIdentity ==
    (/\ ScaleReturned
     /\ recipes[request.recipe_id].base_servings > 0
     /\ request.target_servings = recipes[request.recipe_id].base_servings) =>
        LET recipe == recipes[request.recipe_id]
        IN  /\ response.status = "ok"
            /\ response.factor = QInt(1)
            /\ Len(response.ingredients) = Len(recipe.ingredients)
            /\ \A i \in 1..Len(recipe.ingredients) :
                   /\ response.ingredients[i].quantity = recipe.ingredients[i].quantity
                   /\ response.ingredients[i].original_quantity
                          = recipe.ingredients[i].quantity

\* 600 g and 1/2 kg at base 3 scaled to 3 servings
C23_Witness ==
    /\ ScaleReturned
    /\ response.status = "ok"
    /\ recipes[1].base_servings = 3
    /\ request.target_servings = 3
    /\ Len(response.ingredients) = 2
    /\ recipes[1].ingredients[1].quantity = QInt(600)
    /\ recipes[1].ingredients[2].quantity = Q(1, 2)
    /\ response.ingredients[2].quantity = Q(1, 2)

(***************************************************************************)
(* Rounding in convert_unit.                                               *)
(***************************************************************************)
\* x is a multiple of 10^-k and no further than half of 10^-k from y
RoundedTo(x, y, k) ==
    /\ Pow10(k) % x.d = 0
    /\ 2 * Pow10(k) * Abs(x.n * y.d - y.n * x.d) <= x.d * y.d

\* C24: a converted quantity is quantity * factor rounded to 1 decimal place
\* when the product is >= 10, to 2 when it is >= 1 and < 10, to 3 when it is
\* < 1; an unconverted quantity is the input rounded to 2 decimal places, or
\* the input itself when it is a whole number.
C24_RoundingByMagnitude ==
    ConvertReturned =>
        LET q == request.quantity
        IN  IF response.was_converted
            THEN LET product == QMul(q, RulesOfCall[request.unit].factor)
                 IN  /\ QGeq(product, QInt(10)) =>
                            RoundedTo(response.quantity, product, 1)
                     /\ (QGeq(product, QInt(1)) /\ QLt(product, QInt(10))) =>
                            RoundedTo(response.quantity, product, 2)
                     /\ QLt(product, QInt(1)) =>
                            RoundedTo(response.quantity, product, 3)
            ELSE /\ q.d = 1 => response.quantity = q
                 /\ q.d # 1 => RoundedTo(response.quantity, q, 2)

\* 12345.5 g become 12.3 kg
C24_Witness ==
    /\ ConvertReturned
    /\ request.unit = "g"
    /\ request.quantity = Q(24691, 2)
    /\ response.was_converted
    /\ response.unit = "kg"
    /\ response.quantity = Q(123, 10)

(***************************************************************************)
(* convert_unit under stored mappings.                                     *)
(***************************************************************************)
\* C25: convert_unit has no error outcome: for every quantity, unit and
\* mapping loaded from the unit_conversions setting it returns a quantity, a
\* unit and was_converted, and it changes neither the built-in rules nor the
\* tables.
C25_ConvertUnitAlwaysReturns ==
    /\ [](ConvertReturned =>
             /\ {"quantity", "unit", "was_converted"} \subseteq DOMAIN response
             /\ DEFAULT_CONVERSIONS = DefaultConversionsLiteral)
    /\ [][request'.op = "convert_unit" => UNCHANGED db]_vars

(***************************************************************************)
(* Recipe versions.                                                        *)
(***************************************************************************)
SnapshotsOf(recipe_id) == {v \in recipe_versions : v.recipe_id = recipe_id}

\* C30: after create_recipe and any update_recipe calls a recipe's
\* version_number is the number of its RecipeVersion snapshots, the snapshots
\* carry exactly the numbers 1..version_number, each once, and the snapshot
\* with the highest number records the recipe's current base_servings and
\* ingredient lines.
C30_VersionNumberMatchesSnapshots ==
    \A id \in DOMAIN recipes :
        LET recipe == recipes[id]
            snapshots == SnapshotsOf(id)
        IN  /\ Cardinality(snapshots) = recipe.version_number
            /\ {v.version_number : v \in snapshots} = 1..recipe.version_number
            /\ \A v \in snapshots :
                   v.version_number = recipe.version_number =>
                       /\ v.base_servings = recipe.base_servings
                       /\ LET lines == JsonLoads(v.ingredients_snapshot)
                          IN  [i \in 1..Len(lines) |->
                                  Line(lines[i].ingredient_id, lines[i].quantity,
                                       lines[i].unit)]
                                  = recipe.ingredients

(***************************************************************************)
(* Create requests for one slot that are in flight together.               *)
(***************************************************************************)
\* both requests had arrived before the handler of either ran
InFlightTogether(c, d) == d \in running[c].waiting \/ c \in running[d].waiting

\* C29: when two create_meal_plan requests for the same (camp, meal date,
\* meal type) slot are in flight together, then in whatever order their
\* count-read and insert steps run both rows are stored, at distinct positions.
C29_ConcurrentCreatesBothStored ==
    \A c, d \in DOMAIN running :
        (/\ c # d
         /\ running[c].op = "create_meal_plan" /\ running[d].op = "create_meal_plan"
         /\ running[c].pc = "done" /\ running[d].pc = "done"
         /\ SameSlot(running[c].meal_plan, running[d].meal_plan)
         /\ InFlightTogether(c, d)) =>
            /\ running[c].status = "200"
            /\ running[d].status = "200"
            /\ running[c].position # running[d].position
====
